---- MODULE Spec2Model ----
(***************************************************************************)
(* Word Fuse: the in-memory room / game state machine of the server        *)
(* (GameService in server/src/gameService.ts, helpers in                   *)
(* server/src/utils.ts).                                                   *)
(*                                                                         *)
(* Strings are sequences of one-character strings, so that trimming,       *)
(* case folding and substring tests are computed and not assumed.          *)
(* The time stamps createdAt / updatedAt / joinedAt are left out of the     *)
(* room and player records: no handler ever reads them, and join order is  *)
(* the order of the players array. lastEvent is a tuple of the pieces of   *)
(* its template string.                                                    *)
(***************************************************************************)
EXTENDS Integers, Sequences, FiniteSets, TLC

\* ---------------------------------------------------------------- constants
DEFAULT_TURN_SECONDS == 10
MIN_TURN_SECONDS == 5
MAX_TURN_SECONDS == 20
DEFAULT_STARTING_LIVES == 3
MIN_STARTING_LIVES == 1
MAX_STARTING_LIVES == 5
MIN_PLAYERS_TO_START == 2
MAX_PLAYERS_PER_ROOM == 12
SUBMIT_RATE_LIMIT_MS == 300
EMPTY_ROOM_TTL_MS == 300000

CHUNKS ==
  << <<"A","R">>, <<"E","R">>, <<"I","N","G">>, <<"T","I","O","N">>,
     <<"C","H">>, <<"S","H">>, <<"T","H">>, <<"E","A">>, <<"O","U">>,
     <<"S","T">>, <<"T","R">>, <<"S","P">>, <<"C","L">>, <<"B","R">>,
     <<"P","L">>, <<"G","R">>, <<"P","H">>, <<"W","H">>, <<"C","K">>,
     <<"L","L">>, <<"M","E","N","T">>, <<"N","E","S","S">>,
     <<"A","B","L","E">>, <<"F","U","L">>, <<"L","E","S","S">>,
     <<"A","L">>, <<"O","R">>, <<"E","N">>, <<"I","S","T">>,
     <<"O","U","S">> >>

\* ------------------------------------------------------------------- bounds
\* Players a room holds in the model (the code's cap is MAX_PLAYERS_PER_ROOM).
MaxRoster == 2
\* The clock is sampled at MaxEpoch + 1 instants, MIN_TURN_SECONDS apart.
MaxEpoch == 1
\* Players of the room the turn scenario starts from, and its clock samples.
TurnPlayers == 3
TurnEpochs == 2

\* ------------------------------------------------------------ null values
NullId == <<>>
NullSocket == "null"
NullTime == -1
NullChunk == <<>>

\* --------------------------------------------------------- character level
UpperLetters ==
  <<"A","B","C","D","E","F","G","H","I","J","K","L","M",
    "N","O","P","Q","R","S","T","U","V","W","X","Y","Z">>
LowerLetters ==
  <<"a","b","c","d","e","f","g","h","i","j","k","l","m",
    "n","o","p","q","r","s","t","u","v","w","x","y","z">>
Digits == {"0","1","2","3","4","5","6","7","8","9"}

SeqRange(s) == { s[i] : i \in 1..Len(s) }

UpperSet == SeqRange(UpperLetters)
LowerSet == SeqRange(LowerLetters)

IsUpper(c) == c \in UpperSet
IsLower(c) == c \in LowerSet
IsSpace(c) == c = " "

LetterIndex(letters, c) == CHOOSE i \in 1..Len(letters) : letters[i] = c

LowerOf == [c \in UpperSet |-> LowerLetters[LetterIndex(UpperLetters, c)]]
UpperOf == [c \in LowerSet |-> UpperLetters[LetterIndex(LowerLetters, c)]]

\* String.prototype.toLowerCase / toUpperCase, one character
toLowerChar(c) == IF IsUpper(c) THEN LowerOf[c] ELSE c
toUpperChar(c) == IF IsLower(c) THEN UpperOf[c] ELSE c

toLowerCase(str) == [i \in 1..Len(str) |-> toLowerChar(str[i])]
toUpperCase(str) == [i \in 1..Len(str) |-> toUpperChar(str[i])]

\* String.prototype.trim
RECURSIVE trimStart(_)
trimStart(str) ==
  IF str # <<>> /\ IsSpace(Head(str)) THEN trimStart(Tail(str)) ELSE str

RECURSIVE trimEnd(_)
trimEnd(str) ==
  IF str # <<>> /\ IsSpace(str[Len(str)])
    THEN trimEnd(SubSeq(str, 1, Len(str) - 1))
    ELSE str

trim(str) == trimEnd(trimStart(str))

\* str.replace(/\s+/g, " ")
RECURSIVE collapseSpaces(_)
collapseSpaces(str) ==
  IF Len(str) < 2 THEN str
  ELSE IF IsSpace(str[1]) /\ IsSpace(str[2]) THEN collapseSpaces(Tail(str))
  ELSE <<Head(str)>> \o collapseSpaces(Tail(str))

\* str.slice(0, n)
slice0(str, n) == SubSeq(str, 1, IF Len(str) < n THEN Len(str) ELSE n)

\* String.prototype.includes
includes(str, part) ==
  \E i \in 0..(Len(str) - Len(part)) :
    \A j \in 1..Len(part) : str[i + j] = part[j]

\* /^[a-z]+$/.test(str)
IsLowerAlpha(str) == str # <<>> /\ \A i \in 1..Len(str) : IsLower(str[i])

\* ------------------------------------------------------------------ utils.ts
sanitizeRoomCode(input) ==
  slice0(SelectSeq(toUpperCase(input), LAMBDA c : IsUpper(c) \/ c \in Digits), 6)

sanitizePlayerName(input) ==
  slice0(
    SelectSeq(collapseSpaces(trim(input)),
              LAMBDA c : IsUpper(c) \/ IsLower(c) \/ c \in Digits
                         \/ c = " " \/ c = "_" \/ c = "-"),
    20)

sanitizeWord(input) == toLowerCase(trim(input))

Max(a, b) == IF a > b THEN a ELSE b
Min(a, b) == IF a < b THEN a ELSE b

\* Math.round on a value given in halves (x = halves / 2): ties go up
mathRound(halves) == (halves + 1) \div 2

\* A numeric payload field: absent, a finite number (in halves), or a
\* non-finite number (NaN, Infinity)
Absent == [kind |-> "absent", halves |-> 0]
Num(n) == [kind |-> "number", halves |-> 2 * n]
Half(h) == [kind |-> "number", halves |-> h]
NotFinite == [kind |-> "nonfinite", halves |-> 0]

\* A faulty clamp that forgets the lower bound.
clampIntNoFloor(value, min, max) ==
  IF value.kind # "number" THEN min
  ELSE Min(max, mathRound(value.halves))

clampInt(value, min, max) ==
  IF value.kind # "number" THEN min
  ELSE Max(min, Min(max, mathRound(value.halves)))

\* createRoomCode: the codes a call can return; none when every code of the
\* space is taken (the 10,000 attempts all collide) and the call throws
createRoomCode(existingCodes, space) == space \ existingCodes

\* createPlayerId: a fresh identifier; the k-th player of a room gets <<code, k>>
createPlayerId(roomCode, k) == <<roomCode, k>>

\* -------------------------------------------------------------- environment
Code1 == <<"A","B","C","2","3","4">>
\* the codes createRoomCode draws from
RoomCodes == {Code1}
\* what clients send as a room code
DirtyCode1 == <<"a","b","c","-","2","3","4">>
UnknownCode == <<"Z","Z","Z","Z","Z","Z">>
CodeInputs == {Code1, DirtyCode1, UnknownCode}

\* the dictionary oracle: loaded, with these words
DictionaryEnabled == TRUE
DictionaryWords == { <<"a","r","t">>, <<"h","e","r">> }
dictionaryHas(word) == (~DictionaryEnabled) \/ toLowerCase(word) \in DictionaryWords

\* Math.floor(Math.random() * source.length): the draws explored
Draws == {0, 1}

\* Date.now() when the server starts
ClockStart == 1000000
\* the k-th sampled instant, MIN_TURN_SECONDS apart
Epoch(k) == ClockStart + k * (MIN_TURN_SECONDS * 1000)

\* -------------------------------------------------------------------- state
VARIABLES
  rooms,                  \* Map<string, RoomState>: a function on the codes in use
  socketSessions,         \* Map<string, SocketSession>: a function on the bound sockets
  lastSubmitAtBySocket,   \* Map<string, number>
  now,                    \* Date.now()
  crashed                 \* an exception escaped a handler

vars == <<rooms, socketSessions, lastSubmitAtBySocket, now, crashed>>

Init ==
  /\ rooms = <<>>
  /\ socketSessions = <<>>
  /\ lastSubmitAtBySocket = <<>>
  /\ now = ClockStart
  /\ crashed = FALSE

\* Map.set / Map.delete on a function
MapSet(m, k, v) == [x \in DOMAIN m \cup {k} |-> IF x = k THEN v ELSE m[x]]
MapDelete(m, k) == [x \in DOMAIN m \ {k} |-> m[x]]


\* ------------------------------------------------------------ room helpers
PlayerIds(room) == { room.players[i].id : i \in 1..Len(room.players) }

\* room.players.findIndex(p => p.id === playerId), 1-based, 0 when not found
findIndex(room, playerId) ==
  IF playerId \in PlayerIds(room)
    THEN CHOOSE i \in 1..Len(room.players) :
           /\ room.players[i].id = playerId
           /\ \A j \in 1..(i - 1) : room.players[j].id # playerId
    ELSE 0

HasPlayer(room, playerId) == findIndex(room, playerId) # 0
getPlayer(room, playerId) == room.players[findIndex(room, playerId)]

IsEligible(player) == player.connected /\ ~player.eliminated

getEligiblePlayers(room) == SelectSeq(room.players, IsEligible)

connectedCount(room) == Len(SelectSeq(room.players, LAMBDA p : p.connected))

\* A faulty winner: players[0] instead of eligible[0].
FirstRosterId(room) ==
  IF room.players = <<>> THEN NullId ELSE room.players[1].id

\* the id of eligible[0], or null
FirstEligibleId(room) ==
  IF getEligiblePlayers(room) = <<>> THEN NullId ELSE getEligiblePlayers(room)[1].id

\* A faulty scan that takes the next seat without testing its occupant.
ScanOffsetUntested(room, startIndex, offset) ==
  IF offset > Len(room.players) THEN 0 ELSE offset

\* the first offset in 1..n whose candidate is eligible, 0 when there is none
RECURSIVE ScanOffset(_, _, _)
ScanOffset(room, startIndex, offset) ==
  IF offset > Len(room.players) THEN 0
  ELSE IF IsEligible(room.players[((startIndex - 1 + offset) % Len(room.players)) + 1])
    THEN offset
    ELSE ScanOffset(room, startIndex, offset + 1)

\* A faulty scan that walks the roster backwards.
getPreviousEligiblePlayer(room, fromPlayerId) ==
  IF getEligiblePlayers(room) = <<>> THEN NullId
  ELSE IF findIndex(room, fromPlayerId) = 0 THEN getEligiblePlayers(room)[1].id
  ELSE LET n == Len(room.players)
           startIndex == findIndex(room, fromPlayerId)
           back(offset) == room.players[((startIndex - 1 + n - (offset % n)) % n) + 1]
           hits == { offset \in 1..n : IsEligible(back(offset)) }
       IN back(CHOOSE offset \in hits : \A other \in hits : offset <= other).id

\* A faulty choice that hands the bomb to eligible[0] whoever held it.
getFirstEligiblePlayer(room, fromPlayerId) ==
  IF getEligiblePlayers(room) = <<>> THEN NullId ELSE getEligiblePlayers(room)[1].id

\* the id of the next eligible player, or null
getNextEligiblePlayer(room, fromPlayerId) ==
  IF getEligiblePlayers(room) = <<>> THEN NullId
  ELSE IF fromPlayerId = NullId THEN getEligiblePlayers(room)[1].id
  ELSE IF findIndex(room, fromPlayerId) = 0 THEN getEligiblePlayers(room)[1].id
  ELSE LET startIndex == findIndex(room, fromPlayerId)
           offset == ScanOffset(room, startIndex, 1)
       IN IF offset = 0 THEN NullId
          ELSE room.players[((startIndex - 1 + offset) % Len(room.players)) + 1].id

\* A faulty pool: the whole catalog, the previous chunk included.
ChunkPoolUnfiltered(previousChunk) == CHUNKS

\* CHUNKS.filter(chunk => chunk !== previousChunk)
ChunkPool(previousChunk) == SelectSeq(CHUNKS, LAMBDA chunk : chunk # previousChunk)

\* draw is Math.floor(Math.random() * source.length)
chooseChunk(previousChunk, draw) ==
  LET pool == ChunkPool(previousChunk)
      source == IF Len(pool) > 0 THEN pool ELSE CHUNKS
  IN source[(draw % Len(source)) + 1]

\* winner ? `${winner.name} wins the match.` : "Match ended."
WinEvent(room, winnerId) ==
  IF winnerId = NullId THEN <<"Match ended.">>
  ELSE <<getPlayer(room, winnerId).name, " wins the match.">>

\* A faulty end of match that leaves the chunk on the table.
finishGameKeepsChunk(room, winnerId) ==
  [room EXCEPT !.phase = "results",
               !.winnerId = winnerId,
               !.activePlayerId = NullId,
               !.timerEndsAt = NullTime,
               !.lastEvent = WinEvent(room, winnerId)]

\* A faulty end of match that leaves the deadline armed.
finishGameKeepsTimer(room, winnerId) ==
  [room EXCEPT !.phase = "results",
               !.winnerId = winnerId,
               !.activePlayerId = NullId,
               !.currentChunk = NullChunk,
               !.lastEvent = WinEvent(room, winnerId)]

finishGame(room, winnerId) ==
  [room EXCEPT !.phase = "results",
               !.winnerId = winnerId,
               !.activePlayerId = NullId,
               !.currentChunk = NullChunk,
               !.timerEndsAt = NullTime,
               !.lastEvent = WinEvent(room, winnerId)]

\* A faulty turn change that plays on while anybody is left.
advanceTurnWhileAnyLeft(room, fromPlayerId, draw, t) ==
  LET eligible == getEligiblePlayers(room)
      next == getNextEligiblePlayer(room, fromPlayerId)
  IN IF Len(eligible) < 1 THEN finishGame(room, FirstEligibleId(room))
     ELSE IF next = NullId THEN finishGame(room, FirstEligibleId(room))
     ELSE [room EXCEPT !.activePlayerId = next,
                       !.previousChunk = room.currentChunk,
                       !.currentChunk = chooseChunk(room.currentChunk, draw),
                       !.timerEndsAt = t + room.config.turnSeconds * 1000]

advanceTurn(room, fromPlayerId, draw, t) ==
  LET eligible == getEligiblePlayers(room)
      next == getNextEligiblePlayer(room, fromPlayerId)
  IN IF Len(eligible) <= 1 THEN finishGame(room, FirstEligibleId(room))
     ELSE IF next = NullId THEN finishGame(room, FirstEligibleId(room))
     ELSE [room EXCEPT !.activePlayerId = next,
                       !.previousChunk = room.currentChunk,
                       !.currentChunk = chooseChunk(room.currentChunk, draw),
                       !.timerEndsAt = t + room.config.turnSeconds * 1000]

\* A faulty transfer that hands the room to the player that joined last.
ensureHostIsConnectedLast(room) ==
  LET connected == SelectSeq(room.players, LAMBDA p : p.connected)
  IN IF HasPlayer(room, room.hostId) /\ getPlayer(room, room.hostId).connected THEN room
     ELSE IF connected # <<>>
       THEN [room EXCEPT !.hostId = connected[Len(connected)].id,
                         !.lastEvent = <<connected[Len(connected)].name, " is now host.">>]
       ELSE room

ensureHostIsConnected(room) ==
  LET connected == SelectSeq(room.players, LAMBDA p : p.connected)
  IN IF HasPlayer(room, room.hostId) /\ getPlayer(room, room.hostId).connected THEN room
     ELSE IF connected # <<>>
       THEN [room EXCEPT !.hostId = connected[1].id,
                         !.lastEvent = <<connected[1].name, " is now host.">>]
       ELSE room

bindSocketSession(sessions, socketId, roomCode, playerId) ==
  MapSet(sessions, socketId, [roomCode |-> roomCode, playerId |-> playerId])

\* A faulty test that is content with a session for the room.
socketOwnsPlayerAnyPlayer(socketId, roomCode, playerId) ==
  /\ socketId \in DOMAIN socketSessions
  /\ socketSessions[socketId].roomCode = roomCode

socketOwnsPlayer(socketId, roomCode, playerId) ==
  /\ socketId \in DOMAIN socketSessions
  /\ socketSessions[socketId].roomCode = roomCode
  /\ socketSessions[socketId].playerId = playerId

\* A faulty reset that skips the players that are not connected.
ResetPlayersConnected(room) ==
  [i \in 1..Len(room.players) |->
     IF room.players[i].connected
       THEN [room.players[i] EXCEPT !.score = 0,
                                    !.lives = room.config.startingLives,
                                    !.eliminated = FALSE]
       ELSE room.players[i]]

\* for (const player of room.players) { score = 0; lives = startingLives; eliminated = false }
\* A faulty reset that gives the lives back but leaves players out.
ResetPlayersStillOut(room) ==
  [i \in 1..Len(room.players) |->
     [room.players[i] EXCEPT !.score = 0,
                             !.lives = room.config.startingLives]]

ResetPlayers(room) ==
  [i \in 1..Len(room.players) |->
     [room.players[i] EXCEPT !.score = 0,
                             !.lives = room.config.startingLives,
                             !.eliminated = FALSE]]


\* --------------------------------------------------------------- serializeRoom
PublicPlayer(player) ==
  [id |-> player.id, name |-> player.name, connected |-> player.connected,
   score |-> player.score, lives |-> player.lives, eliminated |-> player.eliminated]

\* A faulty snapshot that lets the remaining time run below zero.
serializeRoomNoFloor(room, t) ==
  [roomCode |-> room.code,
   phase |-> room.phase,
   hostId |-> room.hostId,
   players |-> [i \in 1..Len(room.players) |-> PublicPlayer(room.players[i])],
   config |-> room.config,
   activePlayerId |-> room.activePlayerId,
   currentChunk |-> room.currentChunk,
   remainingMs |->
     IF room.phase = "in_game" /\ room.timerEndsAt # NullTime /\ room.timerEndsAt # 0
       THEN room.timerEndsAt - t
       ELSE 0,
   usedWords |-> room.usedWordsOrdered,
   winnerId |-> room.winnerId,
   lastEvent |-> room.lastEvent,
   canStart |-> room.phase = "lobby" /\ connectedCount(room) >= 2,
   serverTime |-> t]

\* the snapshot of a room taken at instant t; a deadline is used when it is
\* truthy: neither null nor 0
serializeRoom(room, t) ==
  [roomCode |-> room.code,
   phase |-> room.phase,
   hostId |-> room.hostId,
   players |-> [i \in 1..Len(room.players) |-> PublicPlayer(room.players[i])],
   config |-> room.config,
   activePlayerId |-> room.activePlayerId,
   currentChunk |-> room.currentChunk,
   remainingMs |->
     IF room.phase = "in_game" /\ room.timerEndsAt # NullTime /\ room.timerEndsAt # 0
       THEN Max(0, room.timerEndsAt - t)
       ELSE 0,
   usedWords |-> room.usedWordsOrdered,
   winnerId |-> room.winnerId,
   lastEvent |-> room.lastEvent,
   canStart |-> room.phase = "lobby" /\ connectedCount(room) >= 2,
   serverTime |-> t]

\* ---------------------------------------------------------------- createRoom
createRoomError(nameInput, space) ==
  IF sanitizePlayerName(nameInput) = <<>> THEN "InvalidName"
  ELSE IF createRoomCode(DOMAIN rooms, space) = {} THEN "Throw"
  ELSE "ok"

NewPlayer(id, name, socketId, lives) ==
  [id |-> id, name |-> name, socketId |-> socketId, connected |-> TRUE,
   score |-> 0, lives |-> lives, eliminated |-> FALSE]

NewRoom(roomCode, host) ==
  [code |-> roomCode,
   hostId |-> host.id,
   phase |-> "lobby",
   config |-> [turnSeconds |-> DEFAULT_TURN_SECONDS,
               startingLives |-> DEFAULT_STARTING_LIVES,
               dictionaryEnabled |-> DictionaryEnabled],
   players |-> <<host>>,
   usedWords |-> {},
   usedWordsOrdered |-> <<>>,
   activePlayerId |-> NullId,
   currentChunk |-> NullChunk,
   previousChunk |-> NullChunk,
   timerEndsAt |-> NullTime,
   winnerId |-> NullId,
   lastEvent |-> <<"Room created. Waiting for players.">>,
   emptySince |-> NullTime]

CreateRoom(socketId, nameInput, space) ==
  /\ ~crashed
  /\ LET name == sanitizePlayerName(nameInput)
         err == createRoomError(nameInput, space)
     IN IF err = "InvalidName" THEN UNCHANGED vars
        ELSE IF err = "Throw"
          THEN \* the exception escapes the socket handler and ends the process:
               \* its memory is gone
               /\ crashed' = TRUE
               /\ rooms' = <<>>
               /\ socketSessions' = <<>>
               /\ lastSubmitAtBySocket' = <<>>
               /\ UNCHANGED now
        ELSE \E roomCode \in createRoomCode(DOMAIN rooms, space) :
               LET host == NewPlayer(createPlayerId(roomCode, 1), name, socketId,
                                     DEFAULT_STARTING_LIVES)
               IN /\ rooms' = MapSet(rooms, roomCode, NewRoom(roomCode, host))
                  /\ socketSessions' =
                       bindSocketSession(socketSessions, socketId, roomCode, host.id)
                  /\ UNCHANGED <<lastSubmitAtBySocket, now, crashed>>

\* ------------------------------------------------------------------ joinRoom
NameTaken(room, name) ==
  \E i \in 1..Len(room.players) :
    toLowerCase(room.players[i].name) = toLowerCase(name)

\* A faulty handler whose cap lets one player too many in.
joinRoomErrorOneMore(roomCodeInput, nameInput) ==
  LET roomCode == sanitizeRoomCode(roomCodeInput)
      name == sanitizePlayerName(nameInput)
  IN IF roomCode = <<>> THEN "InvalidCode"
     ELSE IF name = <<>> THEN "InvalidName"
     ELSE IF roomCode \notin DOMAIN rooms THEN "RoomNotFound"
     ELSE IF rooms[roomCode].phase # "lobby" THEN "RoomNotJoinable"
     ELSE IF Len(rooms[roomCode].players) > MAX_PLAYERS_PER_ROOM THEN "RoomFull"
     ELSE IF NameTaken(rooms[roomCode], name) THEN "NameTaken"
     ELSE "ok"

joinRoomError(roomCodeInput, nameInput) ==
  LET roomCode == sanitizeRoomCode(roomCodeInput)
      name == sanitizePlayerName(nameInput)
  IN IF roomCode = <<>> THEN "InvalidCode"
     ELSE IF name = <<>> THEN "InvalidName"
     ELSE IF roomCode \notin DOMAIN rooms THEN "RoomNotFound"
     ELSE IF rooms[roomCode].phase # "lobby" THEN "RoomNotJoinable"
     ELSE IF Len(rooms[roomCode].players) >= MAX_PLAYERS_PER_ROOM THEN "RoomFull"
     ELSE IF NameTaken(rooms[roomCode], name) THEN "NameTaken"
     ELSE "ok"

\* A faulty handler that puts the newcomer in front of the roster.
JoinRoomInFront(socketId, roomCodeInput, nameInput) ==
  /\ ~crashed
  /\ LET roomCode == sanitizeRoomCode(roomCodeInput)
         name == sanitizePlayerName(nameInput)
     IN IF joinRoomError(roomCodeInput, nameInput) # "ok" THEN UNCHANGED vars
        ELSE LET room == rooms[roomCode]
                 player == NewPlayer(createPlayerId(roomCode, Len(room.players) + 1),
                                     name, socketId, room.config.startingLives)
             IN /\ rooms' = [rooms EXCEPT ![roomCode] =
                               [room EXCEPT !.players = <<player>> \o room.players,
                                            !.emptySince = NullTime,
                                            !.lastEvent = <<name, " joined the room.">>]]
                /\ socketSessions' =
                     bindSocketSession(socketSessions, socketId, roomCode, player.id)
                /\ UNCHANGED <<lastSubmitAtBySocket, now, crashed>>

\* A faulty handler that leaves the empty-since marker as it finds it.
JoinRoomKeepsMarker(socketId, roomCodeInput, nameInput) ==
  /\ ~crashed
  /\ LET roomCode == sanitizeRoomCode(roomCodeInput)
         name == sanitizePlayerName(nameInput)
     IN IF joinRoomError(roomCodeInput, nameInput) # "ok" THEN UNCHANGED vars
        ELSE LET room == rooms[roomCode]
                 player == NewPlayer(createPlayerId(roomCode, Len(room.players) + 1),
                                     name, socketId, room.config.startingLives)
             IN /\ rooms' = [rooms EXCEPT ![roomCode] =
                               [room EXCEPT !.players = Append(room.players, player),
                                            !.lastEvent = <<name, " joined the room.">>]]
                /\ socketSessions' =
                     bindSocketSession(socketSessions, socketId, roomCode, player.id)
                /\ UNCHANGED <<lastSubmitAtBySocket, now, crashed>>

JoinRoom(socketId, roomCodeInput, nameInput) ==
  /\ ~crashed
  /\ LET roomCode == sanitizeRoomCode(roomCodeInput)
         name == sanitizePlayerName(nameInput)
     IN IF joinRoomError(roomCodeInput, nameInput) # "ok" THEN UNCHANGED vars
        ELSE LET room == rooms[roomCode]
                 player == NewPlayer(createPlayerId(roomCode, Len(room.players) + 1),
                                     name, socketId, room.config.startingLives)
             IN /\ rooms' = [rooms EXCEPT ![roomCode] =
                               [room EXCEPT !.players = Append(room.players, player),
                                            !.emptySince = NullTime,
                                            !.lastEvent = <<name, " joined the room.">>]]
                /\ socketSessions' =
                     bindSocketSession(socketSessions, socketId, roomCode, player.id)
                /\ UNCHANGED <<lastSubmitAtBySocket, now, crashed>>

\* ----------------------------------------------------------- reconnectPlayer
\* nameInput: [given |-> BOOLEAN, text |-> string]; given is typeof === "string"
reconnectPlayerError(roomCodeInput, playerId) ==
  LET roomCode == sanitizeRoomCode(roomCodeInput)
  IN IF roomCode \notin DOMAIN rooms THEN "RoomGone"
     ELSE IF ~HasPlayer(rooms[roomCode], playerId) THEN "PlayerNotFound"
     ELSE "ok"

\* A faulty rename that compares the names as they are written.
RenameOnReconnectExact(room, playerId, nameInput) ==
  LET i == findIndex(room, playerId)
      maybeName == IF nameInput.given THEN sanitizePlayerName(nameInput.text) ELSE <<>>
      duplicateName ==
        \E j \in 1..Len(room.players) :
          /\ room.players[j].id # playerId
          /\ room.players[j].name = maybeName
  IN IF maybeName # <<>> /\ maybeName # room.players[i].name /\ ~duplicateName
       THEN maybeName
       ELSE room.players[i].name

RenameOnReconnect(room, playerId, nameInput) ==
  LET i == findIndex(room, playerId)
      maybeName == IF nameInput.given THEN sanitizePlayerName(nameInput.text) ELSE <<>>
      duplicateName ==
        \E j \in 1..Len(room.players) :
          /\ room.players[j].id # playerId
          /\ toLowerCase(room.players[j].name) = toLowerCase(maybeName)
  IN IF maybeName # <<>> /\ maybeName # room.players[i].name /\ ~duplicateName
       THEN maybeName
       ELSE room.players[i].name

ReconnectPlayer(socketId, roomCodeInput, playerId, nameInput) ==
  /\ ~crashed
  /\ LET roomCode == sanitizeRoomCode(roomCodeInput)
     IN IF reconnectPlayerError(roomCodeInput, playerId) # "ok" THEN UNCHANGED vars
        ELSE \E draw \in Draws :
             LET room == rooms[roomCode]
                 i == findIndex(room, playerId)
                 bound == [room EXCEPT
                             !.players[i].name = RenameOnReconnect(room, playerId, nameInput),
                             !.players[i].socketId = socketId,
                             !.players[i].connected = TRUE,
                             !.emptySince = NullTime]
                 hosted == ensureHostIsConnected(bound)
                 next == getNextEligiblePlayer(hosted, NullId)
                 resumed ==
                   IF hosted.phase = "in_game" /\ hosted.activePlayerId = NullId
                      /\ next # NullId
                     THEN [hosted EXCEPT
                             !.activePlayerId = next,
                             !.currentChunk = chooseChunk(hosted.currentChunk, draw),
                             !.timerEndsAt = now + hosted.config.turnSeconds * 1000]
                     ELSE hosted
             IN /\ rooms' = [rooms EXCEPT ![roomCode] = resumed]
                /\ socketSessions' =
                     bindSocketSession(socketSessions, socketId, roomCode, playerId)
                /\ UNCHANGED <<lastSubmitAtBySocket, now, crashed>>

\* ------------------------------------------------------------ updateSettings
\* A faulty handler that lets every player of the room change its settings.
updateSettingsErrorAnyPlayer(socketId, payload) ==
  LET roomCode == sanitizeRoomCode(payload.roomCode)
  IN IF roomCode \notin DOMAIN rooms THEN "RoomNotFound"
     ELSE IF ~socketOwnsPlayer(socketId, roomCode, payload.playerId) THEN "NotAllowed"
     ELSE IF rooms[roomCode].phase # "lobby" THEN "LobbyOnly"
     ELSE "ok"

updateSettingsError(socketId, payload) ==
  LET roomCode == sanitizeRoomCode(payload.roomCode)
  IN IF roomCode \notin DOMAIN rooms THEN "RoomNotFound"
     ELSE IF ~socketOwnsPlayer(socketId, roomCode, payload.playerId) THEN "NotAllowed"
     ELSE IF rooms[roomCode].phase # "lobby" THEN "LobbyOnly"
     ELSE IF rooms[roomCode].hostId # payload.playerId THEN "HostOnly"
     ELSE "ok"

applySettings(config, payload) ==
  [turnSeconds |->
     IF payload.turnSeconds.kind # "absent"
       THEN clampInt(payload.turnSeconds, MIN_TURN_SECONDS, MAX_TURN_SECONDS)
       ELSE config.turnSeconds,
   startingLives |->
     IF payload.startingLives.kind # "absent"
       THEN clampInt(payload.startingLives, MIN_STARTING_LIVES, MAX_STARTING_LIVES)
       ELSE config.startingLives,
   dictionaryEnabled |->
     IF payload.dictionaryEnabled # "absent"
       THEN (payload.dictionaryEnabled = "true") /\ DictionaryEnabled
       ELSE config.dictionaryEnabled]

UpdateSettings(socketId, payload) ==
  /\ ~crashed
  /\ LET roomCode == sanitizeRoomCode(payload.roomCode)
     IN IF updateSettingsError(socketId, payload) # "ok" THEN UNCHANGED vars
        ELSE /\ rooms' = [rooms EXCEPT ![roomCode] =
                            [@ EXCEPT !.config = applySettings(@, payload),
                                       !.lastEvent = <<"Host updated game settings.">>]]
             /\ UNCHANGED <<socketSessions, lastSubmitAtBySocket, now, crashed>>


\* ----------------------------------------------------------------- startGame
\* A faulty handler that counts the roster instead of the connected players.
startGameErrorCountsRoster(socketId, roomCodeInput, playerId) ==
  LET roomCode == sanitizeRoomCode(roomCodeInput)
  IN IF roomCode \notin DOMAIN rooms THEN "RoomNotFound"
     ELSE IF ~socketOwnsPlayer(socketId, roomCode, playerId) THEN "NotAllowed"
     ELSE IF rooms[roomCode].hostId # playerId THEN "HostOnly"
     ELSE IF rooms[roomCode].phase # "lobby" THEN "AlreadyRunning"
     ELSE IF Len(rooms[roomCode].players) < MIN_PLAYERS_TO_START THEN "NotEnoughPlayers"
     ELSE "ok"

startGameError(socketId, roomCodeInput, playerId) ==
  LET roomCode == sanitizeRoomCode(roomCodeInput)
  IN IF roomCode \notin DOMAIN rooms THEN "RoomNotFound"
     ELSE IF ~socketOwnsPlayer(socketId, roomCode, playerId) THEN "NotAllowed"
     ELSE IF rooms[roomCode].hostId # playerId THEN "HostOnly"
     ELSE IF rooms[roomCode].phase # "lobby" THEN "AlreadyRunning"
     ELSE IF connectedCount(rooms[roomCode]) < MIN_PLAYERS_TO_START THEN "NotEnoughPlayers"
     ELSE "ok"

\* lines 558-580: the state a successful start leaves
startedRoom(room, draw, t) ==
  LET reset == [room EXCEPT !.phase = "in_game",
                            !.usedWords = {},
                            !.usedWordsOrdered = <<>>,
                            !.winnerId = NullId,
                            !.previousChunk = NullChunk,
                            !.players = ResetPlayers(room)]
      firstActive == getNextEligiblePlayer(reset, NullId)
  IN IF firstActive = NullId THEN [reset EXCEPT !.phase = "lobby"]
     ELSE [reset EXCEPT !.activePlayerId = firstActive,
                        !.currentChunk = chooseChunk(NullChunk, draw),
                        !.timerEndsAt = t + room.config.turnSeconds * 1000,
                        !.lastEvent = <<getPlayer(reset, firstActive).name,
                                        " starts with the bomb.">>]

StartGame(socketId, roomCodeInput, playerId) ==
  /\ ~crashed
  /\ LET roomCode == sanitizeRoomCode(roomCodeInput)
     IN IF startGameError(socketId, roomCodeInput, playerId) # "ok" THEN UNCHANGED vars
        ELSE /\ \E draw \in Draws :
                  rooms' = [rooms EXCEPT ![roomCode] = startedRoom(@, draw, now)]
             /\ UNCHANGED <<socketSessions, lastSubmitAtBySocket, now, crashed>>

\* ---------------------------------------------------------------- submitWord
lastSubmit(socketId) ==
  IF socketId \in DOMAIN lastSubmitAtBySocket THEN lastSubmitAtBySocket[socketId] ELSE 0

\* A faulty window that is one millisecond too long.
RateLimitedInclusive(socketId) == now - lastSubmit(socketId) <= SUBMIT_RATE_LIMIT_MS

RateLimited(socketId) == now - lastSubmit(socketId) < SUBMIT_RATE_LIMIT_MS

MissingChunk(room, word) ==
  room.currentChunk = NullChunk \/ ~includes(word, toLowerCase(room.currentChunk))

\* A faulty check that remembers only the word played last.
AlreadyUsedLast(room, word) ==
  /\ room.usedWordsOrdered # <<>>
  /\ room.usedWordsOrdered[Len(room.usedWordsOrdered)] = word

AlreadyUsed(room, word) == word \in room.usedWords

\* A faulty order of checks: the phase is looked at before the connection.
submitWordErrorPhaseFirst(socketId, payload) ==
  LET roomCode == sanitizeRoomCode(payload.roomCode)
      word == sanitizeWord(payload.word)
  IN IF RateLimited(socketId) THEN "RateLimited"
     ELSE IF roomCode \notin DOMAIN rooms THEN "RoomNotFound"
     ELSE IF rooms[roomCode].phase # "in_game" THEN "NotActive"
     ELSE IF ~socketOwnsPlayer(socketId, roomCode, payload.playerId) THEN "NotAllowed"
     ELSE IF \/ ~HasPlayer(rooms[roomCode], payload.playerId)
             \/ ~IsEligible(getPlayer(rooms[roomCode], payload.playerId))
       THEN "NotActivePlayer"
     ELSE IF rooms[roomCode].activePlayerId # payload.playerId THEN "NotYourTurn"
     ELSE IF ~IsLowerAlpha(word) THEN "LettersOnly"
     ELSE IF Len(word) < 3 THEN "TooShort"
     ELSE IF MissingChunk(rooms[roomCode], word) THEN "MissingChunk"
     ELSE IF AlreadyUsed(rooms[roomCode], word) THEN "WordAlreadyUsed"
     ELSE IF rooms[roomCode].config.dictionaryEnabled /\ ~dictionaryHas(word)
       THEN "NotInDictionary"
     ELSE "ok"

\* A faulty check that turns a word down once the deadline has passed.
submitWordErrorAfterDeadline(socketId, payload) ==
  LET roomCode == sanitizeRoomCode(payload.roomCode)
      word == sanitizeWord(payload.word)
  IN IF RateLimited(socketId) THEN "RateLimited"
     ELSE IF roomCode \notin DOMAIN rooms THEN "RoomNotFound"
     ELSE IF ~socketOwnsPlayer(socketId, roomCode, payload.playerId) THEN "NotAllowed"
     ELSE IF rooms[roomCode].phase # "in_game" THEN "NotActive"
     ELSE IF \/ ~HasPlayer(rooms[roomCode], payload.playerId)
             \/ ~IsEligible(getPlayer(rooms[roomCode], payload.playerId))
       THEN "NotActivePlayer"
     ELSE IF rooms[roomCode].activePlayerId # payload.playerId THEN "NotYourTurn"
     ELSE IF now >= rooms[roomCode].timerEndsAt THEN "TooLate"
     ELSE IF ~IsLowerAlpha(word) THEN "LettersOnly"
     ELSE IF Len(word) < 3 THEN "TooShort"
     ELSE IF MissingChunk(rooms[roomCode], word) THEN "MissingChunk"
     ELSE IF AlreadyUsed(rooms[roomCode], word) THEN "WordAlreadyUsed"
     ELSE IF rooms[roomCode].config.dictionaryEnabled /\ ~dictionaryHas(word)
       THEN "NotInDictionary"
     ELSE "ok"

submitWordError(socketId, payload) ==
  LET roomCode == sanitizeRoomCode(payload.roomCode)
      word == sanitizeWord(payload.word)
  IN IF RateLimited(socketId) THEN "RateLimited"
     ELSE IF roomCode \notin DOMAIN rooms THEN "RoomNotFound"
     ELSE IF ~socketOwnsPlayer(socketId, roomCode, payload.playerId) THEN "NotAllowed"
     ELSE IF rooms[roomCode].phase # "in_game" THEN "NotActive"
     ELSE IF \/ ~HasPlayer(rooms[roomCode], payload.playerId)
             \/ ~IsEligible(getPlayer(rooms[roomCode], payload.playerId))
       THEN "NotActivePlayer"
     ELSE IF rooms[roomCode].activePlayerId # payload.playerId THEN "NotYourTurn"
     ELSE IF ~IsLowerAlpha(word) THEN "LettersOnly"
     ELSE IF Len(word) < 3 THEN "TooShort"
     ELSE IF MissingChunk(rooms[roomCode], word) THEN "MissingChunk"
     ELSE IF AlreadyUsed(rooms[roomCode], word) THEN "WordAlreadyUsed"
     ELSE IF rooms[roomCode].config.dictionaryEnabled /\ ~dictionaryHas(word)
       THEN "NotInDictionary"
     ELSE "ok"

\* A faulty acceptance that forgets the ordered log.
playedRoomUnlogged(room, playerId, word, draw, t) ==
  LET i == findIndex(room, playerId)
      scored == [room EXCEPT !.usedWords = @ \cup {word},
                             !.players[i].score = @ + 1,
                             !.lastEvent = <<room.players[i].name, " played ", word>>]
  IN advanceTurn(scored, playerId, draw, t)

\* A faulty acceptance that logs the word and gives no point for it.
playedRoomNoPoint(room, playerId, word, draw, t) ==
  LET i == findIndex(room, playerId)
      scored == [room EXCEPT !.usedWords = @ \cup {word},
                             !.usedWordsOrdered = Append(@, word),
                             !.lastEvent = <<room.players[i].name, " played ", word>>]
  IN advanceTurn(scored, playerId, draw, t)

\* lines 641-646: the state an accepted word leaves
playedRoom(room, playerId, word, draw, t) ==
  LET i == findIndex(room, playerId)
      scored == [room EXCEPT !.usedWords = @ \cup {word},
                             !.usedWordsOrdered = Append(@, word),
                             !.players[i].score = @ + 1,
                             !.lastEvent = <<room.players[i].name, " played ", word>>]
  IN advanceTurn(scored, playerId, draw, t)

\* A faulty handler that marks a word as used before asking the dictionary.
SubmitWordMarksEarly(socketId, payload) ==
  /\ ~crashed
  /\ LET roomCode == sanitizeRoomCode(payload.roomCode)
         word == sanitizeWord(payload.word)
         err == submitWordError(socketId, payload)
     IN IF err = "RateLimited" THEN UNCHANGED vars
        ELSE /\ lastSubmitAtBySocket' = MapSet(lastSubmitAtBySocket, socketId, now)
             /\ IF err = "NotInDictionary"
                  THEN rooms' = [rooms EXCEPT ![roomCode].usedWords = @ \cup {word}]
                ELSE IF err # "ok" THEN rooms' = rooms
                ELSE \E draw \in Draws :
                       rooms' = [rooms EXCEPT ![roomCode] =
                                   playedRoom(@, payload.playerId, word, draw, now)]
             /\ UNCHANGED <<socketSessions, now, crashed>>

SubmitWord(socketId, payload) ==
  /\ ~crashed
  /\ LET roomCode == sanitizeRoomCode(payload.roomCode)
         word == sanitizeWord(payload.word)
         err == submitWordError(socketId, payload)
     IN IF err = "RateLimited" THEN UNCHANGED vars
        ELSE /\ lastSubmitAtBySocket' = MapSet(lastSubmitAtBySocket, socketId, now)
             /\ IF err # "ok" THEN rooms' = rooms
                ELSE \E draw \in Draws :
                       rooms' = [rooms EXCEPT ![roomCode] =
                                   playedRoom(@, payload.playerId, word, draw, now)]
             /\ UNCHANGED <<socketSessions, now, crashed>>

\* ----------------------------------------------------------------- playAgain
\* A faulty handler that resets the match in whatever phase the room is.
playAgainErrorAnyPhase(socketId, roomCodeInput, playerId) ==
  LET roomCode == sanitizeRoomCode(roomCodeInput)
  IN IF roomCode \notin DOMAIN rooms THEN "RoomNotFound"
     ELSE IF ~socketOwnsPlayer(socketId, roomCode, playerId) THEN "NotAllowed"
     ELSE IF rooms[roomCode].hostId # playerId THEN "HostOnly"
     ELSE "ok"

playAgainError(socketId, roomCodeInput, playerId) ==
  LET roomCode == sanitizeRoomCode(roomCodeInput)
  IN IF roomCode \notin DOMAIN rooms THEN "RoomNotFound"
     ELSE IF ~socketOwnsPlayer(socketId, roomCode, playerId) THEN "NotAllowed"
     ELSE IF rooms[roomCode].hostId # playerId THEN "HostOnly"
     ELSE IF rooms[roomCode].phase # "results" THEN "NotEnded"
     ELSE "ok"

\* A faulty reset that leaves the scores and the ordered log of the match.
resetRoomKeepsScores(room) ==
  [room EXCEPT !.phase = "lobby",
               !.activePlayerId = NullId,
               !.currentChunk = NullChunk,
               !.previousChunk = NullChunk,
               !.timerEndsAt = NullTime,
               !.winnerId = NullId,
               !.usedWords = {},
               !.players = [i \in 1..Len(room.players) |->
                              [room.players[i] EXCEPT
                                 !.lives = room.config.startingLives,
                                 !.eliminated = FALSE]],
               !.lastEvent = <<"Match reset. Host can start a new game.">>]

resetRoom(room) ==
  [room EXCEPT !.phase = "lobby",
               !.activePlayerId = NullId,
               !.currentChunk = NullChunk,
               !.previousChunk = NullChunk,
               !.timerEndsAt = NullTime,
               !.winnerId = NullId,
               !.usedWords = {},
               !.usedWordsOrdered = <<>>,
               !.players = ResetPlayers(room),
               !.lastEvent = <<"Match reset. Host can start a new game.">>]

PlayAgain(socketId, roomCodeInput, playerId) ==
  /\ ~crashed
  /\ LET roomCode == sanitizeRoomCode(roomCodeInput)
     IN IF playAgainError(socketId, roomCodeInput, playerId) # "ok" THEN UNCHANGED vars
        ELSE /\ rooms' = [rooms EXCEPT ![roomCode] = resetRoom(@)]
             /\ UNCHANGED <<socketSessions, lastSubmitAtBySocket, now, crashed>>

\* ---------------------------------------------------------- handleDisconnect
\* A faulty departure that costs the leaving player a life, as an expiry does.
disconnectedRoomTakesLife(room, playerId, draw, t) ==
  LET i == findIndex(room, playerId)
      left == [room EXCEPT !.players[i].socketId = NullSocket,
                           !.players[i].connected = FALSE,
                           !.players[i].lives = Max(0, @ - 1)]
      hosted == IF playerId = left.hostId THEN ensureHostIsConnected(left) ELSE left
      played ==
        IF hosted.phase = "in_game"
          THEN IF hosted.activePlayerId = playerId
                 THEN advanceTurn(
                        [hosted EXCEPT !.lastEvent =
                           <<room.players[i].name,
                             " disconnected. Bomb moved to next player.">>],
                        playerId, draw, t)
                 ELSE IF Len(getEligiblePlayers(hosted)) <= 1
                        THEN finishGame(hosted, FirstEligibleId(hosted))
                        ELSE hosted
          ELSE hosted
  IN [played EXCEPT !.emptySince = IF connectedCount(played) = 0 THEN t ELSE NullTime]

\* lines 720-740: the room after its player bound to the socket has left
\* A faulty departure: the bomb stays with the leaver's seat empty, the
\* match going on with no holder until somebody comes back.
disconnectedRoomDropsBomb(room, playerId, draw, t) ==
  LET i == findIndex(room, playerId)
      left == [room EXCEPT !.players[i].socketId = NullSocket,
                           !.players[i].connected = FALSE]
      hosted == IF playerId = left.hostId THEN ensureHostIsConnected(left) ELSE left
      played ==
        IF hosted.phase = "in_game"
          THEN IF hosted.activePlayerId = playerId
                 THEN [hosted EXCEPT !.activePlayerId = NullId,
                                     !.lastEvent = <<room.players[i].name, " disconnected.">>]
                 ELSE IF Len(getEligiblePlayers(hosted)) <= 1
                        THEN finishGame(hosted, FirstEligibleId(hosted))
                        ELSE hosted
          ELSE hosted
  IN [played EXCEPT !.emptySince = IF connectedCount(played) = 0 THEN t ELSE NullTime]

disconnectedRoom(room, playerId, draw, t) ==
  LET i == findIndex(room, playerId)
      left == [room EXCEPT !.players[i].socketId = NullSocket,
                           !.players[i].connected = FALSE]
      hosted == IF playerId = left.hostId THEN ensureHostIsConnected(left) ELSE left
      played ==
        IF hosted.phase = "in_game"
          THEN IF hosted.activePlayerId = playerId
                 THEN advanceTurn(
                        [hosted EXCEPT !.lastEvent =
                           <<room.players[i].name,
                             " disconnected. Bomb moved to next player.">>],
                        playerId, draw, t)
                 ELSE IF Len(getEligiblePlayers(hosted)) <= 1
                        THEN finishGame(hosted, FirstEligibleId(hosted))
                        ELSE hosted
          ELSE hosted
  IN [played EXCEPT !.emptySince = IF connectedCount(played) = 0 THEN t ELSE NullTime]

\* A faulty write: the departure is announced in every room.
roomOfSessionAnnouncedToAll(roomCode, room) ==
  [c \in DOMAIN rooms |->
     IF c = roomCode THEN room ELSE [rooms[c] EXCEPT !.lastEvent = room.lastEvent]]

\* line 706: const room = this.rooms.get(session.roomCode), the one room
\* the handler's writes land in
roomOfSession(roomCode, room) == [rooms EXCEPT ![roomCode] = room]

HandleDisconnect(socketId) ==
  /\ ~crashed
  /\ socketSessions' = MapDelete(socketSessions, socketId)
  /\ lastSubmitAtBySocket' = MapDelete(lastSubmitAtBySocket, socketId)
  /\ IF socketId \notin DOMAIN socketSessions THEN rooms' = rooms
     ELSE LET session == socketSessions[socketId]
          IN IF session.roomCode \notin DOMAIN rooms THEN rooms' = rooms
             ELSE IF ~HasPlayer(rooms[session.roomCode], session.playerId)
               THEN rooms' = rooms
             ELSE IF getPlayer(rooms[session.roomCode], session.playerId).socketId # socketId
               THEN rooms' = rooms
             ELSE \E draw \in Draws :
                    rooms' = roomOfSession(session.roomCode,
                               disconnectedRoom(rooms[session.roomCode],
                                                session.playerId, draw, now))
  /\ UNCHANGED <<now, crashed>>

\* ---------------------------------------------------------------------- tick
\* A faulty expiry that eliminates a player on its last life but one.
handleTimerExpiryHasty(room, draw, t) ==
  IF room.phase # "in_game" \/ room.activePlayerId = NullId THEN room
  ELSE IF \/ ~HasPlayer(room, room.activePlayerId)
          \/ ~IsEligible(getPlayer(room, room.activePlayerId))
    THEN [advanceTurn(room, room.activePlayerId, draw, t) EXCEPT
            !.lastEvent = <<"Bomb moved because active player was unavailable.">>]
  ELSE LET i == findIndex(room, room.activePlayerId)
           lives == Max(0, room.players[i].lives - 1)
           hit == [room EXCEPT !.players[i].lives = lives,
                               !.players[i].eliminated = IF lives <= 1 THEN TRUE ELSE @,
                               !.lastEvent =
                                 IF lives <= 1
                                   THEN <<room.players[i].name, " exploded and was eliminated.">>
                                   ELSE <<room.players[i].name, " exploded and lost a life.">>]
       IN advanceTurn(hit, room.activePlayerId, draw, t)

\* A faulty expiry that passes the bomb on and takes no life.
handleTimerExpirySpares(room, draw, t) ==
  IF room.phase # "in_game" \/ room.activePlayerId = NullId THEN room
  ELSE [advanceTurn(room, room.activePlayerId, draw, t) EXCEPT
          !.lastEvent = <<"Bomb moved because active player was unavailable.">>]

handleTimerExpiry(room, draw, t) ==
  IF room.phase # "in_game" \/ room.activePlayerId = NullId THEN room
  ELSE IF \/ ~HasPlayer(room, room.activePlayerId)
          \/ ~IsEligible(getPlayer(room, room.activePlayerId))
    THEN [advanceTurn(room, room.activePlayerId, draw, t) EXCEPT
            !.lastEvent = <<"Bomb moved because active player was unavailable.">>]
  ELSE LET i == findIndex(room, room.activePlayerId)
           lives == Max(0, room.players[i].lives - 1)
           hit == [room EXCEPT !.players[i].lives = lives,
                               !.players[i].eliminated = IF lives = 0 THEN TRUE ELSE @,
                               !.lastEvent =
                                 IF lives = 0
                                   THEN <<room.players[i].name, " exploded and was eliminated.">>
                                   ELSE <<room.players[i].name, " exploded and lost a life.">>]
       IN advanceTurn(hit, room.activePlayerId, draw, t)

\* A faulty tick that does not look at the deadline.
tickRoomAnytime(room, draw, t) ==
  IF room.phase # "in_game" THEN room
  ELSE IF room.activePlayerId = NullId \/ room.timerEndsAt = NullTime THEN room
  ELSE handleTimerExpiry(room, draw, t)

tickRoom(room, draw, t) ==
  IF room.phase # "in_game" THEN room
  ELSE IF room.activePlayerId = NullId \/ room.timerEndsAt = NullTime THEN room
  ELSE IF t >= room.timerEndsAt THEN handleTimerExpiry(room, draw, t)
  ELSE room

Tick(draws) ==
  /\ ~crashed
  /\ rooms' = [c \in DOMAIN rooms |-> tickRoom(rooms[c], draws[c], now)]
  /\ UNCHANGED <<socketSessions, lastSubmitAtBySocket, now, crashed>>

\* -------------------------------------------------------------- cleanupRooms
\* A faulty test that takes a room at the very end of its window.
StaleAtWindow(room, t) ==
  room.emptySince # NullTime /\ t - room.emptySince >= EMPTY_ROOM_TTL_MS

Stale(room, t) == room.emptySince # NullTime /\ t - room.emptySince > EMPTY_ROOM_TTL_MS

CleanupRooms ==
  /\ ~crashed
  /\ rooms' = [c \in { k \in DOMAIN rooms : ~Stale(rooms[k], now) } |-> rooms[c]]
  /\ UNCHANGED <<socketSessions, lastSubmitAtBySocket, now, crashed>>

\* --------------------------------------------------------------------- clock
\* Date.now() is monotonic between handlers; t is the next reading.
\* Time passes by lapse while a match runs and its deadline is ahead. The
\* program compares instants by their difference only (772: now >=
\* timerEndsAt; 835: Date.now() + turnSeconds * 1000), so the reading of the
\* clock is kept and the deadline is brought nearer by the lapse, which
\* leaves every such comparison as the later reading would give it.
TimePasses(lapse) ==
  /\ ~crashed
  /\ lastSubmitAtBySocket = <<>>
  /\ \E c \in DOMAIN rooms : rooms[c].phase = "in_game"
  /\ \A c \in DOMAIN rooms :
       /\ rooms[c].emptySince = NullTime
       /\ rooms[c].timerEndsAt # NullTime => now < rooms[c].timerEndsAt
  /\ rooms' = [c \in DOMAIN rooms |->
                 IF rooms[c].timerEndsAt = NullTime THEN rooms[c]
                 ELSE [rooms[c] EXCEPT !.timerEndsAt = @ - lapse]]
  /\ UNCHANGED <<socketSessions, lastSubmitAtBySocket, now, crashed>>

ClockAdvance(t) ==
  /\ ~crashed
  /\ t > now
  /\ now' = t
  /\ UNCHANGED <<rooms, socketSessions, lastSubmitAtBySocket, crashed>>

\* ------------------------------------------------------------- specification

\* the connections, and what their clients send
Sockets == {"s1", "s2"}

HostNames == { <<"A","v","a">>, <<"!","?">> }
GuestNames == { <<" ","a","v","a"," ">>, <<"B","o">> }

PlayerIdInputs == { createPlayerId(Code1, k) : k \in 1..MaxRoster }

\* the first player's client sends the code as its user typed it
ActionInputs ==
  { [roomCode |-> IF p = createPlayerId(Code1, 1) THEN DirtyCode1 ELSE Code1,
     playerId |-> p] : p \in PlayerIdInputs }

ReconnectNames ==
  { [given |-> FALSE, text |-> <<>>], [given |-> TRUE, text |-> <<" ","a","v","a"," ">>] }

SettingsInputs ==
  { [turnSeconds |-> Num(4), startingLives |-> Num(0), dictionaryEnabled |-> "false"] }

WordInputs ==
  { <<" ","A","R","T"," ">>, <<"a","r","1">> }

\* clients show the word form only while a match runs (client/src/App.tsx)
GameRunning == \E c \in DOMAIN rooms : rooms[c].phase = "in_game"

\* the instants at which the event loop runs a handler
TimePoints == { Epoch(k) : k \in 0..MaxEpoch }

\* A room holds a deadline or an empty-since marker. The clock of this
\* specification is read again only then: its instants are seconds apart,
\* which the rooms' timers measure.
TimestampStored ==
  \E c \in DOMAIN rooms :
    rooms[c].timerEndsAt # NullTime \/ rooms[c].emptySince # NullTime

\* the join would not take the room past a roster of size players
RoomBelow(size, roomCodeInput, nameInput) ==
  joinRoomError(roomCodeInput, nameInput) = "ok"
    => Len(rooms[sanitizeRoomCode(roomCodeInput)].players) < size

Next ==
  \/ \E s \in Sockets, n \in HostNames : CreateRoom(s, n, RoomCodes)
  \/ \E s \in Sockets, c \in CodeInputs, n \in GuestNames :
       /\ RoomBelow(MaxRoster, c, n)
       /\ JoinRoom(s, c, n)
  \/ \E s \in Sockets, a \in ActionInputs, n \in ReconnectNames :
       ReconnectPlayer(s, a.roomCode, a.playerId, n)
  \/ \E s \in Sockets, a \in ActionInputs, f \in SettingsInputs :
       UpdateSettings(s, [roomCode |-> a.roomCode, playerId |-> a.playerId,
                          turnSeconds |-> f.turnSeconds,
                          startingLives |-> f.startingLives,
                          dictionaryEnabled |-> f.dictionaryEnabled])
  \/ \E s \in Sockets, a \in ActionInputs : StartGame(s, a.roomCode, a.playerId)
  \/ \E s \in Sockets, a \in ActionInputs, w \in WordInputs :
       /\ GameRunning
       /\ SubmitWord(s, [roomCode |-> a.roomCode, playerId |-> a.playerId, word |-> w])
  \/ \E s \in Sockets, a \in ActionInputs : PlayAgain(s, a.roomCode, a.playerId)
  \/ \E s \in Sockets : HandleDisconnect(s)
  \/ \E draws \in [DOMAIN rooms -> Draws] : Tick(draws)
  \/ CleanupRooms
  \/ \E t \in TimePoints : TimestampStored /\ ClockAdvance(t)

Spec == Init /\ [][Next]_vars


\* ------------------------------------------------------------ turn scenario
\* A lobby of TurnPlayers connected players, each on a connection of its own,
\* whose clients behave as client/src/App.tsx does: every action carries the
\* client's own room code and player id, and a word is sent only by the
\* client that holds the bomb.
ClientNames == << <<"A","v","a">>, <<"B","o">>, <<"C","y">>, <<"D","e","e">>, <<"E","d">> >>
ClientSockets == <<"s1", "s2", "s3", "s4", "s5">>
Clients == 1..TurnPlayers
\* the clients that come back after losing their connection
Returning == {TurnPlayers}

\* the settings the host has chosen before the scenario starts
TurnConfig ==
  [turnSeconds |-> MIN_TURN_SECONDS, startingLives |-> MIN_STARTING_LIVES + 1,
   dictionaryEnabled |-> TRUE]

TurnLobby(config) ==
  [NewRoom(Code1, NewPlayer(createPlayerId(Code1, 1), ClientNames[1], ClientSockets[1],
                            DEFAULT_STARTING_LIVES))
     EXCEPT !.config = config,
            !.players = [k \in Clients |->
                           NewPlayer(createPlayerId(Code1, k), ClientNames[k],
                                     ClientSockets[k], DEFAULT_STARTING_LIVES)]]

InitTurns ==
  /\ rooms = [c \in {Code1} |-> TurnLobby(TurnConfig)]
  /\ socketSessions =
       [s \in { ClientSockets[k] : k \in Clients } |->
          [roomCode |-> Code1,
           playerId |-> createPlayerId(Code1, CHOOSE k \in Clients : ClientSockets[k] = s)]]
  /\ lastSubmitAtBySocket = <<>>
  /\ now = ClockStart
  /\ crashed = FALSE

TurnWords == { <<"a","r","t">>, <<" ","A","R","T"," ">>, <<"h","e","r">>, <<"e","a","r">> }

HoldsBomb(k) ==
  /\ Code1 \in DOMAIN rooms
  /\ rooms[Code1].phase = "in_game"
  /\ rooms[Code1].activePlayerId = createPlayerId(Code1, k)

NextTurns ==
  \/ \E k \in Clients : StartGame(ClientSockets[k], Code1, createPlayerId(Code1, k))
  \/ \E k \in Clients, w \in TurnWords :
       /\ HoldsBomb(k)
       /\ SubmitWord(ClientSockets[k],
                     [roomCode |-> Code1, playerId |-> createPlayerId(Code1, k), word |-> w])
  \/ \E k \in Clients : PlayAgain(ClientSockets[k], Code1, createPlayerId(Code1, k))
  \/ \E k \in Clients : HandleDisconnect(ClientSockets[k])
  \/ \E k \in Returning :
       ReconnectPlayer(ClientSockets[k], Code1, createPlayerId(Code1, k),
                       [given |-> TRUE, text |-> ClientNames[k]])
  \/ \E draws \in [DOMAIN rooms -> Draws] : Tick(draws)
  \/ \E t \in { Epoch(e) : e \in 0..TurnEpochs } : TimestampStored /\ ClockAdvance(t)

SpecTurns == InitTurns /\ [][NextTurns]_vars


\* ------------------------------------------------------ rate-limit scenario
\* The same lobby, with the clock read at instants around the rate-limit
\* window, and connections that send any payload at any time.
RateOffsets ==
  { 0, SUBMIT_RATE_LIMIT_MS - 1, SUBMIT_RATE_LIMIT_MS,
    2 * SUBMIT_RATE_LIMIT_MS - 1, 2 * SUBMIT_RATE_LIMIT_MS }
RateInstants == { ClockStart + d : d \in RateOffsets }

RateSockets == { ClientSockets[k] : k \in 1..MaxRoster }

RatePayloads ==
  { [roomCode |-> c, playerId |-> createPlayerId(Code1, k), word |-> w] :
      c \in {Code1, UnknownCode}, k \in 1..MaxRoster,
      w \in { <<"a","r","t">>, <<"a","r","1">> } }

NextRate ==
  \/ \E k \in Clients : StartGame(ClientSockets[k], Code1, createPlayerId(Code1, k))
  \/ \E s \in RateSockets, payload \in RatePayloads : SubmitWord(s, payload)
  \/ \E s \in RateSockets : HandleDisconnect(s)
  \/ \E t \in RateInstants : ClockAdvance(t)

SpecRate == InitTurns /\ [][NextRate]_vars


\* ----------------------------------------------------------- lobby scenario
\* A room its host has just created. The other clients join it on their own
\* connections, every client asks for settings, sends game:start and
\* game:playAgain whether it is the host or not, the holder of the bomb sends
\* words, connections drop and timers run.
InitLobby ==
  /\ rooms = [c \in {Code1} |->
                NewRoom(Code1, NewPlayer(createPlayerId(Code1, 1), ClientNames[1],
                                         ClientSockets[1], DEFAULT_STARTING_LIVES))]
  /\ socketSessions =
       [s \in {ClientSockets[1]} |->
          [roomCode |-> Code1, playerId |-> createPlayerId(Code1, 1)]]
  /\ lastSubmitAtBySocket = <<>>
  /\ now = ClockStart
  /\ crashed = FALSE

\* settings payloads: fields absent, below, inside and above their ranges,
\* fractional and not finite
LobbySettings ==
  { [turnSeconds |-> Absent, startingLives |-> Absent, dictionaryEnabled |-> "absent"],
    [turnSeconds |-> Num(MIN_TURN_SECONDS - 1), startingLives |-> Absent,
     dictionaryEnabled |-> "absent"],
    [turnSeconds |-> Absent, startingLives |-> Num(MAX_STARTING_LIVES + 1),
     dictionaryEnabled |-> "absent"],
    [turnSeconds |-> Absent, startingLives |-> Absent, dictionaryEnabled |-> "false"],
    [turnSeconds |-> Half(25), startingLives |-> Num(2), dictionaryEnabled |-> "true"],
    [turnSeconds |-> NotFinite, startingLives |-> Num(MIN_STARTING_LIVES - 1),
     dictionaryEnabled |-> "absent"],
    [turnSeconds |-> Num(MAX_TURN_SECONDS + 1), startingLives |-> Half(1),
     dictionaryEnabled |-> "absent"] }

LobbyWords == { <<"a","r","t">>, <<"e","a","r">> }

SettingsPayload(k, f) ==
  [roomCode |-> Code1, playerId |-> createPlayerId(Code1, k),
   turnSeconds |-> f.turnSeconds, startingLives |-> f.startingLives,
   dictionaryEnabled |-> f.dictionaryEnabled]

NextLobby ==
  \/ \E k \in Clients \ {1} : JoinRoom(ClientSockets[k], Code1, ClientNames[k])
  \/ \E k \in Clients, f \in LobbySettings :
       UpdateSettings(ClientSockets[k], SettingsPayload(k, f))
  \/ \E k \in Clients : StartGame(ClientSockets[k], Code1, createPlayerId(Code1, k))
  \/ \E k \in Clients, w \in LobbyWords :
       /\ HoldsBomb(k)
       /\ SubmitWord(ClientSockets[k],
                     [roomCode |-> Code1, playerId |-> createPlayerId(Code1, k), word |-> w])
  \/ \E k \in Clients : PlayAgain(ClientSockets[k], Code1, createPlayerId(Code1, k))
  \/ \E k \in Clients : HandleDisconnect(ClientSockets[k])
  \/ \E draws \in [DOMAIN rooms -> Draws] : Tick(draws)
  \/ \E t \in TimePoints : TimestampStored /\ ClockAdvance(t)

SpecLobby == InitLobby /\ [][NextLobby]_vars


\* ------------------------------------------------------------ join scenario
\* A room its host has just created fills up to the cap: each newcomer is on
\* a connection of its own and asks for a fresh name, for a name of the roster
\* in another case and between blanks, or for a name with no valid character,
\* in this room or in one that does not exist. The first players start and
\* reset matches and lose their connections meanwhile.
JoinSockets ==
  << "s1", "s2", "s3", "s4", "s5", "s6", "s7", "s8", "s9", "s10", "s11", "s12",
     "s13", "s14" >>

\* the name the k-th player of the room asks for
JoinerName(k) == IF k = 1 THEN ClientNames[1] ELSE <<"P", UpperLetters[k]>>

\* the same name as its user may type it again
Retyped(name) == <<" ">> \o toLowerCase(name) \o <<" ">>

NoName == <<"!","?">>
NoCode == <<"-","-">>

JoinNames(room) ==
  { JoinerName(Len(room.players) + 1), NoName }
  \cup { Retyped(room.players[i].name) : i \in {1, 2, Len(room.players)} \cap DOMAIN room.players }

JoinCodes == {Code1, UnknownCode, NoCode}

\* the players that start and reset matches and lose their connections
Early == 1..TurnPlayers

NextJoin ==
  \/ \E c \in JoinCodes, n \in JoinNames(rooms[Code1]) :
       JoinRoom(JoinSockets[Len(rooms[Code1].players) + 1], c, n)
  \/ \E k \in Early : StartGame(JoinSockets[k], Code1, createPlayerId(Code1, k))
  \/ \E k \in Early : PlayAgain(JoinSockets[k], Code1, createPlayerId(Code1, k))
  \/ \E k \in Early : HandleDisconnect(JoinSockets[k])

SpecJoin == InitLobby /\ [][NextJoin]_vars


\* ----------------------------------------------------------- names scenario
\* A server with no room yet. One client creates the room, the others join
\* it, and all of them lose their connections and come back, asking each
\* time for names that differ from the names of the roster, or from their
\* own, by letter case, by blanks or not at all.
TypedNames ==
  { <<"B","o">>, <<" ","a","v","a">>, <<"B","O"," ">>, <<"C","y">> }

RenameInputs ==
  { [given |-> FALSE, text |-> <<>>] }
  \cup { [given |-> TRUE, text |-> n] : n \in TypedNames \cup { <<"b","o">>, NoName } }

NextNames ==
  \/ CreateRoom(ClientSockets[1], ClientNames[1], RoomCodes)
  \/ \E k \in Clients \ {1}, n \in TypedNames :
       /\ RoomBelow(TurnPlayers, Code1, n)
       /\ JoinRoom(ClientSockets[k], Code1, n)
  \/ \E k \in Clients, n \in RenameInputs :
       ReconnectPlayer(ClientSockets[k], Code1, createPlayerId(Code1, k), n)
  \/ \E k \in Clients : HandleDisconnect(ClientSockets[k])

SpecNames == Init /\ [][NextNames]_vars


\* ----------------------------------------------------------- sweep scenario
\* A room its host has just created, over a clock that is read around the
\* end of the retention window and of the window after it. A second client
\* joins, both lose their connections and come back on new ones, matches are
\* started and reset, and the sweep runs at any of the instants.
SweepOffsets ==
  { 0, 1, EMPTY_ROOM_TTL_MS, EMPTY_ROOM_TTL_MS + 1, EMPTY_ROOM_TTL_MS + 2,
    2 * EMPTY_ROOM_TTL_MS + 2, 2 * EMPTY_ROOM_TTL_MS + 3 }
SweepInstants == { ClockStart + d : d \in SweepOffsets }

\* the clients of the room, and the connection a client comes back on
SweepClients == 1..MaxRoster
NewSocket(k) == ClientSockets[k + MaxRoster]

NextSweep ==
  \/ \E k \in SweepClients \ {1} : JoinRoom(ClientSockets[k], Code1, ClientNames[k])
  \/ \E k \in SweepClients :
       ReconnectPlayer(NewSocket(k), Code1, createPlayerId(Code1, k),
                       [given |-> FALSE, text |-> <<>>])
  \/ \E k \in SweepClients : \E s \in {ClientSockets[k], NewSocket(k)} :
       StartGame(s, Code1, createPlayerId(Code1, k))
  \/ \E k \in SweepClients : \E s \in {ClientSockets[k], NewSocket(k)} :
       PlayAgain(s, Code1, createPlayerId(Code1, k))
  \/ \E k \in SweepClients : \E s \in {ClientSockets[k], NewSocket(k)} : HandleDisconnect(s)
  \/ CleanupRooms
  \/ \E t \in SweepInstants : ClockAdvance(t)

SpecSweep == InitLobby /\ [][NextSweep]_vars


\* ------------------------------------------------------- two-room scenario
\* A server with a code space of two and one room, where two players on
\* connections of their own that send nothing have just started a match. Two more clients come: they
\* create the other room, join it, and send every request on either
\* connection with either room code and a player id of either room; the
\* second client knows the id of the first room's host and can come back
\* as that player.
Code2 == <<"X","Y","Z","7","8","9">>
TwoCodes == {Code1, Code2}

\* the players of the room that is there from the start
Residents == {3, 4}
ResidentLobby ==
  [NewRoom(Code2, NewPlayer(createPlayerId(Code2, 1), ClientNames[3], ClientSockets[3],
                            DEFAULT_STARTING_LIVES))
     EXCEPT !.players =
       [k \in 1..2 |-> NewPlayer(createPlayerId(Code2, k), ClientNames[k + 2],
                                 ClientSockets[k + 2], DEFAULT_STARTING_LIVES)]]

InitRooms ==
  /\ rooms = [c \in {Code2} |-> startedRoom(ResidentLobby, 1, ClockStart)]
  /\ socketSessions =
       [s \in { ClientSockets[k] : k \in Residents } |->
          [roomCode |-> Code2,
           playerId |-> createPlayerId(Code2, (CHOOSE k \in Residents : ClientSockets[k] = s) - 2)]]
  /\ lastSubmitAtBySocket = <<>>
  /\ now = ClockStart
  /\ crashed = FALSE

RoomSockets == { ClientSockets[k] : k \in 1..MaxRoster }
NameOn(s) == ClientNames[CHOOSE k \in 1..MaxRoster : ClientSockets[k] = s]

Addresses ==
  { [roomCode |-> c, playerId |-> createPlayerId(d, k)] :
      c \in TwoCodes, d \in TwoCodes, k \in 1..MaxRoster }

RoomWords == { <<"a","r","t">> }

NextRooms ==
  \/ CreateRoom(ClientSockets[1], ClientNames[1], TwoCodes)
  \/ \E s \in RoomSockets, c \in TwoCodes :
       /\ RoomBelow(MaxRoster, c, NameOn(s))
       /\ JoinRoom(s, c, NameOn(s))
  \/ \E s \in RoomSockets, a \in Addresses :
       /\ a.playerId = createPlayerId(Code2, 1) => s = ClientSockets[2]
       /\ a.playerId # createPlayerId(Code2, 2)
       /\ ReconnectPlayer(s, a.roomCode, a.playerId, [given |-> FALSE, text |-> <<>>])
  \/ \E s \in RoomSockets, a \in Addresses, f \in SettingsInputs :
       UpdateSettings(s, [roomCode |-> a.roomCode, playerId |-> a.playerId,
                          turnSeconds |-> f.turnSeconds,
                          startingLives |-> f.startingLives,
                          dictionaryEnabled |-> f.dictionaryEnabled])
  \/ \E s \in RoomSockets, a \in Addresses : StartGame(s, a.roomCode, a.playerId)
  \/ \E s \in RoomSockets, a \in Addresses, w \in RoomWords :
       /\ GameRunning
       /\ SubmitWord(s, [roomCode |-> a.roomCode, playerId |-> a.playerId, word |-> w])
  \/ \E s \in RoomSockets, a \in Addresses : PlayAgain(s, a.roomCode, a.playerId)
  \/ \E s \in RoomSockets : HandleDisconnect(s)

SpecRooms == InitRooms /\ [][NextRooms]_vars


\* ------------------------------------------------------------ fuse scenario
\* Three players in a lobby; the host starts the match and from then on
\* nobody sends a word. Players lose and regain their connections, time
\* passes by half turns and whole turns, and the timer ticks.
Lapses == { MIN_TURN_SECONDS * 500, MIN_TURN_SECONDS * 1000 }

TimeGoesOn == \E lapse \in Lapses : TimePasses(lapse)
TimerFires == \E draws \in [DOMAIN rooms -> Draws] : Tick(draws)

NextFuse ==
  \/ StartGame(ClientSockets[1], Code1, createPlayerId(Code1, 1))
  \/ \E k \in Clients : HandleDisconnect(ClientSockets[k])
  \/ \E k \in Clients :
       ReconnectPlayer(ClientSockets[k], Code1, createPlayerId(Code1, k),
                       [given |-> FALSE, text |-> <<>>])
  \/ TimerFires
  \/ TimeGoesOn

\* the interval timer keeps firing (309) and time does not stand still
SpecFuse ==
  /\ InitTurns
  /\ [][NextFuse]_vars
  /\ WF_vars(TimerFires)
  /\ WF_vars(TimeGoesOn)

\* ------------------------------------------------------ connection scenario
\* The same lobby, whose players lose their connections and come back on
\* them in any order, before, during and after a match.
NextHost ==
  \/ \E k \in Clients : StartGame(ClientSockets[k], Code1, createPlayerId(Code1, k))
  \/ \E k \in Clients : PlayAgain(ClientSockets[k], Code1, createPlayerId(Code1, k))
  \/ \E k \in Clients : HandleDisconnect(ClientSockets[k])
  \/ \E k \in Clients :
       ReconnectPlayer(ClientSockets[k], Code1, createPlayerId(Code1, k),
                       [given |-> FALSE, text |-> <<>>])

SpecHost == InitTurns /\ [][NextHost]_vars


\* ------------------------------------------------------ submission scenario
\* The same lobby with one life each, and connections that send any payload
\* at any time: any of the room's player ids, a known or an unknown room
\* code, and words that are fine, unknown, too short or not alphabetic.
WordsConfig ==
  [turnSeconds |-> MIN_TURN_SECONDS, startingLives |-> MIN_STARTING_LIVES,
   dictionaryEnabled |-> TRUE]

InitWords ==
  /\ rooms = [c \in {Code1} |-> TurnLobby(WordsConfig)]
  /\ socketSessions =
       [s \in { ClientSockets[k] : k \in Clients } |->
          [roomCode |-> Code1,
           playerId |-> createPlayerId(Code1, CHOOSE k \in Clients : ClientSockets[k] = s)]]
  /\ lastSubmitAtBySocket = <<>>
  /\ now = ClockStart
  /\ crashed = FALSE

SentWords ==
  { <<"a","r","t">>, <<"h","e","r">>, <<"e","a","r">>, <<"A","R">>, <<"a","r","1">> }

SubmitSockets == { ClientSockets[k] : k \in Clients }

SubmitPayloads ==
  { [roomCode |-> c, playerId |-> createPlayerId(Code1, k), word |-> w] :
      c \in {Code1, UnknownCode}, k \in Clients, w \in SentWords }

NextWords ==
  \/ \E k \in Clients : StartGame(ClientSockets[k], Code1, createPlayerId(Code1, k))
  \/ \E s \in SubmitSockets, payload \in SubmitPayloads : SubmitWord(s, payload)
  \/ \E k \in Clients : HandleDisconnect(ClientSockets[k])
  \/ \E draws \in [DOMAIN rooms -> Draws] : Tick(draws)
  \/ \E t \in TimePoints : TimestampStored /\ ClockAdvance(t)

SpecWords == InitWords /\ [][NextWords]_vars


\* ---------------------------------------------------------------- properties
\* Read off the room records alone, without the handlers' helpers.
InGame(room) == room.phase = "in_game"
Seats(room) == 1..Len(room.players)
EligibleSeats(room) ==
  { i \in Seats(room) : room.players[i].connected /\ ~room.players[i].eliminated }
SeatsOf(room, playerId) == { i \in Seats(room) : room.players[i].id = playerId }
\* the rooms a step keeps
Kept == DOMAIN rooms \cap DOMAIN rooms'

\* C1: in every reachable state, a room in phase in_game has an activePlayerId
\* that names a roster player whose connected flag is true and whose
\* eliminated flag is false.
ActivePlayerEligible ==
  \A c \in DOMAIN rooms :
    InGame(rooms[c]) =>
      \E i \in EligibleSeats(rooms[c]) : rooms[c].players[i].id = rooms[c].activePlayerId

\* C1 happens: the match goes on around a player that is out, after a word
\* has moved the bomb.
BombAmongAbsentees ==
  \E c \in DOMAIN rooms :
    /\ InGame(rooms[c])
    /\ EligibleSeats(rooms[c]) # Seats(rooms[c])
    /\ rooms[c].usedWordsOrdered # <<>>
    /\ \E i \in Seats(rooms[c]) : rooms[c].players[i].eliminated

\* C2: a step that takes an in_game room from two or more eligible players to
\* exactly one leaves it in phase results with winnerId naming that player,
\* and no step leaves a room in_game with fewer than two eligible players.
SoleEligibleWins(c) ==
  /\ ( /\ InGame(rooms[c])
       /\ Cardinality(EligibleSeats(rooms[c])) > 1
       /\ Cardinality(EligibleSeats(rooms'[c])) = 1 )
     => /\ rooms'[c].phase = "results"
        /\ \E i \in EligibleSeats(rooms'[c]) : rooms'[c].winnerId = rooms'[c].players[i].id
  /\ InGame(rooms'[c]) => Cardinality(EligibleSeats(rooms'[c])) >= 2

LastPlayerStandingWins == [][\A c \in Kept : SoleEligibleWins(c)]_vars

\* C2 happens: a match has ended on an elimination, with one eligible player
\* left, the winner.
WonByElimination ==
  \E c \in DOMAIN rooms :
    /\ rooms[c].phase = "results"
    /\ \E i \in Seats(rooms[c]) : rooms[c].players[i].eliminated /\ rooms[c].players[i].connected
    /\ \E i \in Seats(rooms[c]) :
         EligibleSeats(rooms[c]) = {i} /\ rooms[c].winnerId = rooms[c].players[i].id

\* a word with its case folded and its surrounding blanks removed
Folded(word) == toLowerCase(trim(word))
IsPrefix(a, b) == Len(a) <= Len(b) /\ SubSeq(b, 1, Len(a)) = a
NoRepeat(log) ==
  \A i, j \in 1..Len(log) : i < j => Folded(log[i]) # Folded(log[j])

\* C3: from a successful startGame until the next playAgain, the log of
\* accepted words only grows and never holds two entries that are equal up to
\* letter case and surrounding whitespace: no word is accepted twice in a match.
WordsStayUsed(c) ==
  (rooms[c].phase # "lobby" /\ rooms'[c].phase # "lobby")
    => /\ IsPrefix(rooms[c].usedWordsOrdered, rooms'[c].usedWordsOrdered)
       /\ NoRepeat(rooms'[c].usedWordsOrdered)
       /\ rooms'[c].usedWords = SeqRange(rooms'[c].usedWordsOrdered)

AcceptedWordsNeverRepeat == [][\A c \in Kept : WordsStayUsed(c)]_vars

\* C3 happens: the chunk on the table fits a word already played in the match,
\* and the player holding the bomb has just sent a word that was turned down.
UsedWordFitsAgain ==
  \E c \in DOMAIN rooms :
    /\ InGame(rooms[c])
    /\ Len(rooms[c].usedWordsOrdered) >= 2
    /\ \E w \in rooms[c].usedWords : includes(w, toLowerCase(rooms[c].currentChunk))
    /\ \E i \in SeatsOf(rooms[c], rooms[c].activePlayerId) :
         /\ rooms[c].players[i].socketId \in DOMAIN lastSubmitAtBySocket
         /\ lastSubmitAtBySocket[rooms[c].players[i].socketId] = now

\* the turn has moved: another player, another deadline or another word played
TurnMoved(c) ==
  \/ rooms'[c].activePlayerId # rooms[c].activePlayerId
  \/ rooms'[c].timerEndsAt # rooms[c].timerEndsAt
  \/ rooms'[c].usedWordsOrdered # rooms[c].usedWordsOrdered

\* C4: the catalog having more than one chunk, a step that moves the turn and
\* leaves the room in_game puts a chunk of the catalog on the table that
\* differs from the one that was there before the step.
ChunkChanges(c) ==
  (Len(CHUNKS) > 1 /\ InGame(rooms[c]) /\ InGame(rooms'[c]) /\ TurnMoved(c))
    => /\ rooms'[c].currentChunk # rooms[c].currentChunk
       /\ rooms'[c].currentChunk \in SeqRange(CHUNKS)

FreshChunkEachTurn == [][\A c \in Kept : ChunkChanges(c)]_vars

\* C4 happens: the match goes on after a timer expiry has replaced the chunk.
ChunkReplaced ==
  \E c \in DOMAIN rooms :
    /\ InGame(rooms[c])
    /\ rooms[c].previousChunk # NullChunk
    /\ rooms[c].previousChunk # rooms[c].currentChunk
    /\ \E i \in Seats(rooms[c]) : rooms[c].players[i].lives < rooms[c].config.startingLives

\* C5: in every reachable state a room is in_game exactly when activePlayerId
\* and currentChunk are both non-null; in lobby and in results both are null.
PhaseMatchesTurnFields ==
  \A c \in DOMAIN rooms :
    IF InGame(rooms[c])
      THEN rooms[c].activePlayerId # NullId /\ rooms[c].currentChunk # NullChunk
      ELSE rooms[c].activePlayerId = NullId /\ rooms[c].currentChunk = NullChunk

\* C5 happens: a match has been played and has ended with a winner.
MatchOver ==
  \E c \in DOMAIN rooms :
    /\ rooms[c].phase = "results"
    /\ rooms[c].winnerId # NullId
    /\ rooms[c].previousChunk # NullChunk

MinOf(S) == CHOOSE x \in S : \A y \in S : x <= y
\* the first seat of S after seat i in join order, wrapping around the roster
NextSeat(S, i) ==
  IF \E j \in S : j > i THEN MinOf({ j \in S : j > i }) ELSE MinOf(S)

\* C6: a successful startGame makes the earliest-joined eligible player the
\* active one, and a turn advance that leaves the set of eligible players as
\* it was hands the turn to the next eligible player in join order, cyclically.
StartsWithEarliest(c) ==
  (rooms[c].phase = "lobby" /\ InGame(rooms'[c]))
    => SeatsOf(rooms'[c], rooms'[c].activePlayerId) = {MinOf(EligibleSeats(rooms'[c]))}

CyclesInJoinOrder(c) ==
  ( /\ InGame(rooms[c]) /\ InGame(rooms'[c])
    /\ TurnMoved(c)
    /\ EligibleSeats(rooms'[c]) = EligibleSeats(rooms[c]) )
    => \E i \in SeatsOf(rooms[c], rooms[c].activePlayerId) :
         SeatsOf(rooms'[c], rooms'[c].activePlayerId) = {NextSeat(EligibleSeats(rooms[c]), i)}

TurnsFollowJoinOrder ==
  [][\A c \in Kept : StartsWithEarliest(c) /\ CyclesInJoinOrder(c)]_vars

\* C6 happens: with every player eligible, the bomb has gone once around the
\* table (two words and a timer expiry) and is back with the first player.
FullCircle ==
  \E c \in DOMAIN rooms :
    /\ InGame(rooms[c])
    /\ Len(rooms[c].players) >= 3
    /\ EligibleSeats(rooms[c]) = Seats(rooms[c])
    /\ rooms[c].activePlayerId = rooms[c].players[1].id
    /\ \A i \in Seats(rooms[c]) :
         \/ rooms[c].players[i].score = 1
         \/ rooms[c].players[i].lives < rooms[c].config.startingLives

\* C7: a turn advance that leaves the room in_game hands the turn to the first
\* eligible player found from the seat after the one that held it, wrapping
\* around the roster and skipping every disconnected or eliminated player; the
\* player that held it does not get it back while another player is eligible.
NextAfterHolder(c) ==
  (InGame(rooms[c]) /\ InGame(rooms'[c]) /\ TurnMoved(c))
    => \E i \in SeatsOf(rooms[c], rooms[c].activePlayerId) :
         /\ SeatsOf(rooms'[c], rooms'[c].activePlayerId) = {NextSeat(EligibleSeats(rooms'[c]), i)}
         /\ rooms'[c].activePlayerId # rooms[c].activePlayerId
         /\ \A j \in Seats(rooms'[c]) :
              rooms'[c].players[j].id = rooms'[c].activePlayerId
                => rooms'[c].players[j].connected /\ ~rooms'[c].players[j].eliminated

NextEligibleGetsTurn == [][\A c \in Kept : NextAfterHolder(c)]_vars

\* C7 happens: the first player left before any word was played, the second
\* and the third have each played one, and the bomb has wrapped around the
\* roster past the absent first player, back to the second.
WrappedPastAbsentee ==
  \E c \in DOMAIN rooms :
    /\ InGame(rooms[c])
    /\ Len(rooms[c].players) >= 3
    /\ ~rooms[c].players[1].connected
    /\ rooms[c].players[1].score = 0
    /\ rooms[c].players[1].lives = rooms[c].config.startingLives
    /\ rooms[c].players[2].score = 1
    /\ rooms[c].players[3].score = 1
    /\ rooms[c].players[3].lives = rooms[c].config.startingLives
    /\ rooms[c].activePlayerId = rooms[c].players[2].id

\* the fields of a player a step leaves alone
SamePlayer(c, j, fields) ==
  \A f \in fields : rooms'[c].players[j][f] = rooms[c].players[j][f]

\* C8: a tick that finds an in_game room at or past its deadline with an
\* eligible active player takes exactly one life from that player, marks it
\* eliminated exactly when its lives reach 0, leaves the lives, score and
\* eliminated flag of every other player alone, and then passes the turn on
\* or, with at most one eligible player left, ends the match.
Due(c) ==
  /\ InGame(rooms[c])
  /\ rooms[c].timerEndsAt # NullTime
  /\ now >= rooms[c].timerEndsAt
  /\ \E i \in EligibleSeats(rooms[c]) : rooms[c].players[i].id = rooms[c].activePlayerId

Exploded(c) ==
  \E i \in SeatsOf(rooms[c], rooms[c].activePlayerId) :
    /\ rooms'[c].players[i].lives = rooms[c].players[i].lives - 1
    /\ rooms'[c].players[i].lives >= 0
    /\ rooms'[c].players[i].eliminated = (rooms'[c].players[i].lives = 0)
    /\ SamePlayer(c, i, {"id", "name", "score", "connected", "socketId"})
    /\ \A j \in Seats(rooms[c]) \ {i} :
         SamePlayer(c, j, {"id", "name", "lives", "score", "eliminated", "connected", "socketId"})
    /\ Len(rooms'[c].players) = Len(rooms[c].players)
    /\ IF Cardinality(EligibleSeats(rooms'[c])) <= 1
         THEN rooms'[c].phase = "results"
         ELSE /\ InGame(rooms'[c])
              /\ SeatsOf(rooms'[c], rooms'[c].activePlayerId)
                   = {NextSeat(EligibleSeats(rooms'[c]), i)}
              /\ rooms'[c].timerEndsAt = now + rooms[c].config.turnSeconds * 1000

TimerExpiryCostsOneLife ==
  [][(\E draws \in [DOMAIN rooms -> Draws] : Tick(draws))
       => \A c \in Kept : Due(c) => Exploded(c)]_vars

\* C8 happens: timers have expired twice on the same player, who has lost its
\* last life and is out, and the match goes on between the others.
OutOnLastLife ==
  \E c \in DOMAIN rooms :
    /\ InGame(rooms[c])
    /\ \E i \in Seats(rooms[c]) :
         /\ rooms[c].players[i].eliminated
         /\ rooms[c].players[i].lives = 0
         /\ rooms[c].players[i].connected
         /\ rooms[c].activePlayerId # rooms[c].players[i].id

\* C9: a submitWord that passes all checks adds the case-folded word to the
\* used set and to the end of the ordered log, adds exactly 1 to the
\* submitter's score and to no other score, changes no player's lives, hands
\* the turn to the next eligible player and sets the deadline to
\* now + turnSeconds * 1000.
Played(c, k, word) ==
  /\ rooms'[c].usedWords = rooms[c].usedWords \cup {word}
  /\ rooms'[c].usedWordsOrdered = Append(rooms[c].usedWordsOrdered, word)
  /\ rooms'[c].players[k].score = rooms[c].players[k].score + 1
  /\ SamePlayer(c, k, {"id", "name", "lives", "eliminated", "connected", "socketId"})
  /\ \A j \in Seats(rooms[c]) \ {k} :
       SamePlayer(c, j, {"id", "name", "lives", "score", "eliminated", "connected", "socketId"})
  /\ Len(rooms'[c].players) = Len(rooms[c].players)
  /\ InGame(rooms'[c])
  /\ SeatsOf(rooms'[c], rooms'[c].activePlayerId) = {NextSeat(EligibleSeats(rooms[c]), k)}
  /\ rooms'[c].timerEndsAt = now + rooms[c].config.turnSeconds * 1000

AcceptedWordEffects ==
  [][\A k \in Clients, w \in TurnWords :
       LET payload == [roomCode |-> Code1, playerId |-> createPlayerId(Code1, k), word |-> w]
       IN (/\ submitWordError(ClientSockets[k], payload) = "ok"
           /\ SubmitWord(ClientSockets[k], payload))
            => Played(Code1, k, Folded(w))]_vars

\* C9 happens: a word sent in capitals between blanks would be accepted now
\* (the checks pass) after an earlier word has been accepted and scored.
SecondWordPlayable ==
  \E k \in Clients :
    /\ submitWordError(ClientSockets[k],
                       [roomCode |-> Code1, playerId |-> createPlayerId(Code1, k),
                        word |-> <<" ","A","R","T"," ">>]) = "ok"
    /\ rooms[Code1].usedWordsOrdered # <<>>
    /\ \E j \in Seats(rooms[Code1]) : rooms[Code1].players[j].score = 1

\* C10: a submitWord of a connection is answered with the rate-limit error
\* exactly when less than SUBMIT_RATE_LIMIT_MS have passed since the last
\* submission of that connection that passed the rate check, whatever the
\* word, room and player of the payload; a submission that passes the rate
\* check restarts the window whatever becomes of it, and nothing else does.
TooSoon(s) ==
  /\ s \in DOMAIN lastSubmitAtBySocket
  /\ now - lastSubmitAtBySocket[s] < SUBMIT_RATE_LIMIT_MS

RateVerdict ==
  \A s \in RateSockets, payload \in RatePayloads :
    (submitWordError(s, payload) = "RateLimited") <=> TooSoon(s)

RateEffect ==
  /\ \A s \in RateSockets, payload \in RatePayloads :
       (SubmitWord(s, payload) /\ ~TooSoon(s))
         => /\ s \in DOMAIN lastSubmitAtBySocket'
            /\ lastSubmitAtBySocket'[s] = now
  /\ \A s \in DOMAIN lastSubmitAtBySocket' :
       \/ s \in DOMAIN lastSubmitAtBySocket
            /\ lastSubmitAtBySocket'[s] = lastSubmitAtBySocket[s]
       \/ ~TooSoon(s) /\ lastSubmitAtBySocket'[s] = now

RateLimitWindow == []RateVerdict /\ [][RateEffect]_vars

\* C10 happens: a connection whose last passing submission is exactly one
\* window old sends again while another connection is still inside its window.
WindowJustOver ==
  \E s, other \in RateSockets :
    /\ s \in DOMAIN lastSubmitAtBySocket
    /\ now - lastSubmitAtBySocket[s] = SUBMIT_RATE_LIMIT_MS
    /\ TooSoon(other)
    /\ now - lastSubmitAtBySocket[other] > 0

\* the checks of a submission, in the order they are made
CheckOrder ==
  << "RateLimited", "RoomNotFound", "NotAllowed", "NotActive", "NotActivePlayer",
     "NotYourTurn", "BadWord", "MissingChunk", "WordAlreadyUsed", "NotInDictionary" >>

\* the check an error belongs to: not alphabetic and too short are one check
ErrorClass(error) == IF error \in {"LettersOnly", "TooShort"} THEN "BadWord" ELSE error

\* the n-th check, taken alone, turns the submission down
CheckFails(n, s, payload) ==
  LET code == sanitizeRoomCode(payload.roomCode)
      known == code \in DOMAIN rooms
      word == Folded(payload.word)
  IN CASE n = 1 -> TooSoon(s)
       [] n = 2 -> ~known
       [] n = 3 -> ~( /\ s \in DOMAIN socketSessions
                      /\ socketSessions[s].roomCode = code
                      /\ socketSessions[s].playerId = payload.playerId )
       [] n = 4 -> known /\ ~InGame(rooms[code])
       [] n = 5 -> known /\ ~\E i \in EligibleSeats(rooms[code]) :
                               rooms[code].players[i].id = payload.playerId
       [] n = 6 -> known /\ rooms[code].activePlayerId # payload.playerId
       [] n = 7 -> ~(Len(word) >= 3 /\ \A i \in 1..Len(word) : word[i] \in LowerSet)
       [] n = 8 -> known /\ ( \/ rooms[code].currentChunk = NullChunk
                               \/ ~includes(word, toLowerCase(rooms[code].currentChunk)) )
       [] n = 9 -> known /\ word \in rooms[code].usedWords
       [] n = 10 -> known /\ rooms[code].config.dictionaryEnabled
                          /\ word \notin DictionaryWords

FailingChecks(s, payload) == { n \in 1..Len(CheckOrder) : CheckFails(n, s, payload) }

\* C11: the answer to a submitWord is the error of the earliest check that
\* fails, in the order rate limit, room exists, connection bound to the
\* claimed player and room, phase in_game, player connected and not
\* eliminated, player is the active player, word alphabetic with length >= 3,
\* word contains the chunk, word unused, dictionary accepts; it is a success
\* exactly when no check fails.
EarliestFailureReported ==
  \A s \in SubmitSockets, payload \in SubmitPayloads :
    IF FailingChecks(s, payload) = {}
      THEN submitWordError(s, payload) = "ok"
      ELSE ErrorClass(submitWordError(s, payload))
             = CheckOrder[MinOf(FailingChecks(s, payload))]

\* C11 happens: a connection that has sent words before and is past its rate
\* window sends one for which the connection, the phase, the word and three
\* more checks all fail, after a match in which a word was played has ended.
ManyChecksFail ==
  \E s \in SubmitSockets, payload \in SubmitPayloads :
    /\ s \in DOMAIN lastSubmitAtBySocket
    /\ {3, 4, 7} \subseteq FailingChecks(s, payload)
    /\ Cardinality(FailingChecks(s, payload)) >= 6
    /\ 1 \notin FailingChecks(s, payload)
    /\ 2 \notin FailingChecks(s, payload)
    /\ rooms[Code1].phase = "results"
    /\ rooms[Code1].usedWordsOrdered # <<>>

\* C12: a submitWord that is answered with an error, whichever it is, leaves
\* every room as it was: phase, roster, scores, lives, used words, active
\* player, chunk, previous chunk, deadline, winner, host, settings and last
\* event. Stated the other way round: a step that changes a room is not a
\* submitWord that was answered with an error.
RejectedWordChangesNoRoom ==
  [][rooms' # rooms =>
       \A s \in SubmitSockets, payload \in SubmitPayloads :
         submitWordError(s, payload) # "ok" => ~SubmitWord(s, payload)]_vars

\* C12 happens: in a running match in which no word has been accepted, one
\* connection has had a word turned down at this instant and another one at
\* an earlier instant.
TurnedDownTwice ==
  /\ InGame(rooms[Code1])
  /\ rooms[Code1].usedWordsOrdered = <<>>
  /\ \E s, other \in DOMAIN lastSubmitAtBySocket :
       /\ lastSubmitAtBySocket[s] = now
       /\ lastSubmitAtBySocket[other] < now

\* the connection s is the one the host of room c is on
HostIsOn(c, s) ==
  /\ s \in DOMAIN socketSessions
  /\ socketSessions[s].roomCode = c
  /\ socketSessions[s].playerId = rooms[c].hostId
  /\ \E i \in SeatsOf(rooms[c], rooms[c].hostId) :
       rooms[c].players[i].connected /\ rooms[c].players[i].socketId = s

\* the seats of the connected players of room c other than its host
OtherConnected(c) ==
  { i \in Seats(rooms[c]) :
      rooms[c].players[i].connected /\ rooms[c].players[i].id # rooms[c].hostId }

\* C13: the step in which the host's connection disconnects makes the
\* earliest-joined of the other connected players the host, and leaves
\* hostId as it was when no other player is connected.
HostMoves(c, s) ==
  (HostIsOn(c, s) /\ HandleDisconnect(s))
    => IF OtherConnected(c) # {}
         THEN rooms'[c].hostId = rooms[c].players[MinOf(OtherConnected(c))].id
         ELSE rooms'[c].hostId = rooms[c].hostId

HostPassesToEarliestConnected ==
  [][\A c \in Kept, k \in Clients : HostMoves(c, ClientSockets[k])]_vars

\* C13 happens: in the lobby the first player has been made host over the
\* third, which is connected too, the second being away.
HostPassedBack ==
  \E c \in DOMAIN rooms :
    /\ rooms[c].phase = "lobby"
    /\ Len(rooms[c].players) >= 3
    /\ rooms[c].hostId = rooms[c].players[1].id
    /\ rooms[c].lastEvent = <<rooms[c].players[1].name, " is now host.">>
    /\ ~rooms[c].players[2].connected
    /\ rooms[c].players[3].connected
    /\ rooms[c].players[3].socketId \in DOMAIN socketSessions

\* client k is on the connection bound to the host of room c
HostClient(c, k) ==
  /\ rooms[c].hostId = createPlayerId(Code1, k)
  /\ ClientSockets[k] \in DOMAIN socketSessions
  /\ socketSessions[ClientSockets[k]] = [roomCode |-> c, playerId |-> rooms[c].hostId]

\* C14: an updateSettings that does not come from the connection bound to the
\* host while the room is in lobby is answered with an error; a step changes
\* the configuration of a room only if it is an updateSettings from the
\* connection bound to the host of the room in lobby; and a successful
\* updateSettings leaves every field that is absent from its payload alone.
SettingsRefused ==
  \A k \in Clients, f \in LobbySettings :
    (~HostClient(Code1, k) \/ rooms[Code1].phase # "lobby")
      => updateSettingsError(ClientSockets[k], SettingsPayload(k, f)) # "ok"

ConfigFrame ==
  \A c \in Kept :
    rooms'[c].config # rooms[c].config
      => /\ rooms[c].phase = "lobby"
         /\ \E k \in Clients, f \in LobbySettings :
              /\ HostClient(c, k)
              /\ UpdateSettings(ClientSockets[k], SettingsPayload(k, f))

AbsentFieldsKept ==
  \A k \in Clients, f \in LobbySettings :
    ( /\ rooms'[Code1].config # rooms[Code1].config
      /\ UpdateSettings(ClientSockets[k], SettingsPayload(k, f)) )
      => /\ f.turnSeconds = Absent
              => rooms'[Code1].config.turnSeconds = rooms[Code1].config.turnSeconds
         /\ f.startingLives = Absent
              => rooms'[Code1].config.startingLives = rooms[Code1].config.startingLives
         /\ f.dictionaryEnabled = "absent"
              => rooms'[Code1].config.dictionaryEnabled
                   = rooms[Code1].config.dictionaryEnabled

OnlyHostInLobbyChangesConfig ==
  []SettingsRefused /\ [][ConfigFrame /\ AbsentFieldsKept]_vars

\* C14 happens: the second player, host since the first one left, has changed
\* the settings of the lobby; the turn length is at its minimum, the starting
\* lives are still the default, and a third player is in the room.
SecondHostChoseSettings ==
  /\ rooms[Code1].phase = "lobby"
  /\ Len(rooms[Code1].players) >= 3
  /\ HostClient(Code1, 2)
  /\ rooms[Code1].players[3].connected
  /\ rooms[Code1].lastEvent = <<"Host updated game settings.">>
  /\ rooms[Code1].config.turnSeconds = MIN_TURN_SECONDS
  /\ rooms[Code1].config.startingLives = DEFAULT_STARTING_LIVES
  /\ ~rooms[Code1].config.dictionaryEnabled

\* the numbers a payload field is probed with: every half from two below the
\* range to two above it, and a value that is not finite
ProbeValues(min, max) ==
  { Half(h) : h \in (2 * min - 4)..(2 * max + 4) } \cup {NotFinite}

\* C15: in every reachable state the turn length of every room is an integer
\* from MIN_TURN_SECONDS to MAX_TURN_SECONDS and its starting lives an integer
\* from MIN_STARTING_LIVES to MAX_STARTING_LIVES, and whatever number a
\* settings payload carries, below, inside or above the range, the host's
\* request would store a value of the range.
ConfigWithinBounds ==
  /\ \A c \in DOMAIN rooms :
       /\ rooms[c].config.turnSeconds \in MIN_TURN_SECONDS..MAX_TURN_SECONDS
       /\ rooms[c].config.startingLives \in MIN_STARTING_LIVES..MAX_STARTING_LIVES
  /\ \A c \in DOMAIN rooms, t \in ProbeValues(MIN_TURN_SECONDS, MAX_TURN_SECONDS) :
       applySettings(rooms[c].config,
                     [turnSeconds |-> t, startingLives |-> Absent,
                      dictionaryEnabled |-> "absent"]).turnSeconds
         \in MIN_TURN_SECONDS..MAX_TURN_SECONDS
  /\ \A c \in DOMAIN rooms, l \in ProbeValues(MIN_STARTING_LIVES, MAX_STARTING_LIVES) :
       applySettings(rooms[c].config,
                     [turnSeconds |-> Absent, startingLives |-> l,
                      dictionaryEnabled |-> "absent"]).startingLives
         \in MIN_STARTING_LIVES..MAX_STARTING_LIVES

\* C15 happens: a match runs with the settings the host asked for above and
\* below their ranges: the longest turn and a single life.
PlayingAtTheBounds ==
  /\ InGame(rooms[Code1])
  /\ rooms[Code1].config.turnSeconds = MAX_TURN_SECONDS
  /\ rooms[Code1].config.startingLives = MIN_STARTING_LIVES
  /\ rooms[Code1].timerEndsAt = now + MAX_TURN_SECONDS * 1000
  /\ \A i \in Seats(rooms[Code1]) : rooms[Code1].players[i].lives = MIN_STARTING_LIVES

ConnectedSeats(room) == { i \in Seats(room) : room.players[i].connected }

\* the connection s is bound to player j of room c, and that player is its host
HostSends(c, s, j) ==
  /\ s \in DOMAIN socketSessions
  /\ socketSessions[s] = [roomCode |-> c, playerId |-> createPlayerId(Code1, j)]
  /\ rooms[c].hostId = createPlayerId(Code1, j)

\* C16: a startGame sent on any connection in the name of any player succeeds
\* exactly when the connection is bound to that player, the player is the
\* host, the room is in lobby and at least MIN_PLAYERS_TO_START players are
\* connected; the host's request in a lobby with fewer connected players is
\* answered with NotEnoughPlayers; and a room leaves the lobby only by a
\* request that meets all these conditions.
StartVerdict ==
  \A k, j \in Clients :
    LET error == startGameError(ClientSockets[k], Code1, createPlayerId(Code1, j))
        allowed == HostSends(Code1, ClientSockets[k], j) /\ rooms[Code1].phase = "lobby"
        enough == Cardinality(ConnectedSeats(rooms[Code1])) >= MIN_PLAYERS_TO_START
    IN /\ (error = "ok") <=> (allowed /\ enough)
       /\ (allowed /\ ~enough) => error = "NotEnoughPlayers"

StartOnlyWhenAllowed ==
  \A c \in Kept :
    (rooms[c].phase = "lobby" /\ rooms'[c] # rooms[c])
      => \/ rooms'[c].phase = "lobby"
         \/ /\ InGame(rooms'[c])
            /\ Cardinality(ConnectedSeats(rooms[c])) >= MIN_PLAYERS_TO_START
            /\ \E k \in Clients :
                 /\ HostSends(c, ClientSockets[k], k)
                 /\ StartGame(ClientSockets[k], c, createPlayerId(Code1, k))

StartNeedsHostLobbyAndTwo == []StartVerdict /\ [][StartOnlyWhenAllowed]_vars

\* C16 happens: back in the lobby after a match, the host is the only player
\* connected out of three, and its game:start is answered NotEnoughPlayers.
HostAloneCannotStart ==
  /\ rooms[Code1].phase = "lobby"
  /\ rooms[Code1].lastEvent = <<"Match reset. Host can start a new game.">>
  /\ Len(rooms[Code1].players) >= 3
  /\ \E k \in Clients :
       /\ ConnectedSeats(rooms[Code1]) = {k}
       /\ HostSends(Code1, ClientSockets[k], k)
       /\ startGameError(ClientSockets[k], Code1, createPlayerId(Code1, k))
            = "NotEnoughPlayers"

\* C17: a successful startGame leaves the room in_game with every player,
\* connected or not, at score 0, with the configured starting lives and not
\* eliminated, whatever lives it had when it joined; with no used words, no
\* winner, the configuration untouched and the deadline turnSeconds from now.
Started(c) ==
  /\ InGame(rooms'[c])
  /\ rooms'[c].config = rooms[c].config
  /\ Len(rooms'[c].players) = Len(rooms[c].players)
  /\ \A i \in Seats(rooms'[c]) :
       /\ rooms'[c].players[i].score = 0
       /\ rooms'[c].players[i].lives = rooms[c].config.startingLives
       /\ rooms'[c].players[i].eliminated = FALSE
       /\ SamePlayer(c, i, {"id", "name", "connected", "socketId"})
  /\ rooms'[c].usedWords = {}
  /\ rooms'[c].usedWordsOrdered = <<>>
  /\ rooms'[c].winnerId = NullId
  /\ rooms'[c].timerEndsAt = now + rooms[c].config.turnSeconds * 1000

StartResetsTheMatch ==
  [][rooms' # rooms =>
       \A k \in Clients :
         ( /\ startGameError(ClientSockets[k], Code1, createPlayerId(Code1, k)) = "ok"
           /\ StartGame(ClientSockets[k], Code1, createPlayerId(Code1, k)) )
           => Started(Code1)]_vars

\* C17 happens: a match has just started with the most lives the settings
\* allow, chosen after the room was created with the default; every player
\* has them, one of them being away.
StartedWithNewLives ==
  /\ InGame(rooms[Code1])
  /\ \E i \in Seats(rooms[Code1]) :
       rooms[Code1].lastEvent = <<rooms[Code1].players[i].name, " starts with the bomb.">>
  /\ rooms[Code1].config.startingLives = MAX_STARTING_LIVES
  /\ rooms[Code1].timerEndsAt = now + rooms[Code1].config.turnSeconds * 1000
  /\ \A i \in Seats(rooms[Code1]) : rooms[Code1].players[i].lives = MAX_STARTING_LIVES
  /\ \E i \in Seats(rooms[Code1]) : ~rooms[Code1].players[i].connected

\* C18: a playAgain sent on any connection in the name of any player succeeds
\* exactly when the connection is bound to that player, the player is the
\* host and the room is in results; a room goes from results to lobby only
\* that way; and the step clears the active player, both chunks, the deadline,
\* the winner and the used words, resets score, lives and elimination of
\* every player, and leaves ids, names, order, connected flags, socket
\* bindings, host and configuration as they were.
PlayAgainVerdict ==
  \A k, j \in Clients :
    (playAgainError(ClientSockets[k], Code1, createPlayerId(Code1, j)) = "ok")
      <=> (HostSends(Code1, ClientSockets[k], j) /\ rooms[Code1].phase = "results")

BackInLobby(c) ==
  /\ rooms'[c].phase = "lobby"
  /\ rooms'[c].activePlayerId = NullId
  /\ rooms'[c].currentChunk = NullChunk
  /\ rooms'[c].previousChunk = NullChunk
  /\ rooms'[c].timerEndsAt = NullTime
  /\ rooms'[c].winnerId = NullId
  /\ rooms'[c].usedWords = {}
  /\ rooms'[c].usedWordsOrdered = <<>>
  /\ Len(rooms'[c].players) = Len(rooms[c].players)
  /\ \A i \in Seats(rooms[c]) :
       /\ rooms'[c].players[i].score = 0
       /\ rooms'[c].players[i].lives = rooms[c].config.startingLives
       /\ rooms'[c].players[i].eliminated = FALSE
       /\ SamePlayer(c, i, {"id", "name", "connected", "socketId"})
  /\ rooms'[c].hostId = rooms[c].hostId
  /\ rooms'[c].config = rooms[c].config
  /\ socketSessions' = socketSessions

PlayAgainEffect ==
  \A c \in Kept :
    (rooms[c].phase = "results" /\ rooms'[c].phase # "results")
      => /\ BackInLobby(c)
         /\ \E k \in Clients :
              /\ HostSends(c, ClientSockets[k], k)
              /\ PlayAgain(ClientSockets[k], c, createPlayerId(Code1, k))

PlayAgainResetsTheRoom == []PlayAgainVerdict /\ [][PlayAgainEffect]_vars

\* C18 happens: the room is back in the lobby after a match in which words
\* were sent, with a player away and the host role no longer with the player
\* that created the room.
ResetAfterMatch ==
  /\ rooms[Code1].phase = "lobby"
  /\ rooms[Code1].lastEvent = <<"Match reset. Host can start a new game.">>
  /\ rooms[Code1].hostId # rooms[Code1].players[1].id
  /\ \E i \in Seats(rooms[Code1]) :
       ~rooms[Code1].players[i].connected /\ rooms[Code1].players[i].socketId = NullSocket
  /\ lastSubmitAtBySocket # <<>>

\* C19: the phase of a room is lobby, in_game or results, and a step changes
\* it only from lobby to in_game, by a successful startGame, from in_game to
\* results, by a tick or a disconnect that ends the match, or from results to
\* lobby, by a successful playAgain.
PhaseStep(c) ==
  rooms'[c].phase # rooms[c].phase
    => \/ /\ rooms[c].phase = "lobby"
          /\ rooms'[c].phase = "in_game"
          /\ \E k \in Clients :
               /\ startGameError(ClientSockets[k], c, createPlayerId(Code1, k)) = "ok"
               /\ StartGame(ClientSockets[k], c, createPlayerId(Code1, k))
       \/ /\ rooms[c].phase = "in_game"
          /\ rooms'[c].phase = "results"
          /\ \/ \E draws \in [DOMAIN rooms -> Draws] : Tick(draws)
             \/ \E k \in Clients : HandleDisconnect(ClientSockets[k])
       \/ /\ rooms[c].phase = "results"
          /\ rooms'[c].phase = "lobby"
          /\ \E k \in Clients :
               /\ playAgainError(ClientSockets[k], c, createPlayerId(Code1, k)) = "ok"
               /\ PlayAgain(ClientSockets[k], c, createPlayerId(Code1, k))

PhasesCycle ==
  /\ [](\A c \in DOMAIN rooms : rooms[c].phase \in {"lobby", "in_game", "results"})
  /\ [][\A c \in Kept : PhaseStep(c)]_vars

\* C19 happens: the room has been round the cycle and is in the lobby again,
\* at a later instant than the one it started from, with enough connected
\* players for another match.
CycleClosed ==
  /\ rooms[Code1].phase = "lobby"
  /\ rooms[Code1].lastEvent = <<"Match reset. Host can start a new game.">>
  /\ now > ClockStart
  /\ Cardinality(ConnectedSeats(rooms[Code1])) >= MIN_PLAYERS_TO_START

\* the name, as the room stores it, is the name of a player of the roster up
\* to letter case
Collides(room, name) ==
  \E i \in Seats(room) : toLowerCase(room.players[i].name) = toLowerCase(name)

\* the conditions of a join: the room exists, is in lobby, is below the cap,
\* and no player of its roster, connected or not, has the name
Joinable(codeInput, nameInput) ==
  LET code == sanitizeRoomCode(codeInput)
  IN /\ code \in DOMAIN rooms
     /\ rooms[code].phase = "lobby"
     /\ Len(rooms[code].players) < MAX_PLAYERS_PER_ROOM
     /\ ~Collides(rooms[code], sanitizePlayerName(nameInput))

\* the error names a condition that does not hold
ErrorMatches(error, codeInput, nameInput) ==
  LET code == sanitizeRoomCode(codeInput)
      name == sanitizePlayerName(nameInput)
  IN CASE error = "InvalidCode" -> code = <<>>
       [] error = "InvalidName" -> name = <<>>
       [] error = "RoomNotFound" -> code \notin DOMAIN rooms
       [] error = "RoomNotJoinable" -> code \in DOMAIN rooms /\ rooms[code].phase # "lobby"
       [] error = "RoomFull" ->
            code \in DOMAIN rooms /\ Len(rooms[code].players) >= MAX_PLAYERS_PER_ROOM
       [] error = "NameTaken" -> code \in DOMAIN rooms /\ Collides(rooms[code], name)
       [] OTHER -> FALSE

RosterWithinCap ==
  \A c \in DOMAIN rooms : Len(rooms[c].players) <= MAX_PLAYERS_PER_ROOM

\* a step that changes the length of a roster appends one player to it, in
\* a lobby below the cap, under a name that is not empty and that no player
\* of the roster had, and is a join
RosterGrowsByJoin(c) ==
  Len(rooms'[c].players) # Len(rooms[c].players)
    => /\ rooms[c].phase = "lobby"
       /\ rooms'[c].phase = "lobby"
       /\ Len(rooms[c].players) < MAX_PLAYERS_PER_ROOM
       /\ \E player \in {rooms'[c].players[Len(rooms'[c].players)]} :
            /\ rooms'[c].players = Append(rooms[c].players, player)
            /\ player.name # <<>>
            /\ ~Collides(rooms[c], player.name)
       /\ \E code \in JoinCodes, n \in JoinNames(rooms[c]) :
            JoinRoom(JoinSockets[Len(rooms[c].players) + 1], code, n)

\* C20, as stated: a join succeeds exactly when the room exists, is in lobby,
\* is below the cap and has no player of that name; the roster never exceeds
\* the cap.
JoinsWheneverRoomAndNameAllow ==
  /\ \A c \in JoinCodes, n \in JoinNames(rooms[Code1]) :
       (joinRoomError(c, n) = "ok") <=> Joinable(c, n)
  /\ RosterWithinCap

\* C20, amended: a join succeeds exactly when, besides, the name has a valid
\* character left after sanitization; a join that does not succeed is
\* answered with an error whose condition holds, InvalidName and InvalidCode
\* among them; a roster changes length only by a successful join, and never
\* exceeds the cap nor grows outside lobby.
JoinVerdict ==
  \A c \in JoinCodes, n \in JoinNames(rooms[Code1]) :
    /\ (joinRoomError(c, n) = "ok")
         <=> (Joinable(c, n) /\ sanitizePlayerName(n) # <<>>)
    /\ joinRoomError(c, n) # "ok" => ErrorMatches(joinRoomError(c, n), c, n)

JoinsWhenRoomAndValidNameAllow ==
  [](JoinVerdict /\ RosterWithinCap) /\ [][\A c \in Kept : RosterGrowsByJoin(c)]_vars

\* C20 happens: the room is full and in lobby, one of its players is away,
\* and the next newcomer is turned down under a fresh name.
FullRoomTurnsNewcomerDown ==
  /\ rooms[Code1].phase = "lobby"
  /\ Len(rooms[Code1].players) = MAX_PLAYERS_PER_ROOM
  /\ \E i \in Seats(rooms[Code1]) : ~rooms[Code1].players[i].connected
  /\ joinRoomError(Code1, JoinerName(MAX_PLAYERS_PER_ROOM + 1)) = "RoomFull"

\* C21: in every reachable state the players of a room have names that
\* differ pairwise even when letter case is ignored.
NamesUniqueIgnoringCase ==
  \A c \in DOMAIN rooms :
    \A i, j \in Seats(rooms[c]) :
      i # j => toLowerCase(rooms[c].players[i].name) # toLowerCase(rooms[c].players[j].name)

\* C21 happens: the room holds three players, one of them under a name that
\* only a rename on reconnect gives, and the creator of the room would be
\* refused that name in another case.
RenamedAmongThree ==
  /\ Code1 \in DOMAIN rooms
  /\ Len(rooms[Code1].players) = TurnPlayers
  /\ \E i \in Seats(rooms[Code1]) :
       /\ i # 1
       /\ rooms[Code1].players[i].name = <<"b","o">>
       /\ RenameOnReconnect(rooms[Code1], rooms[Code1].players[1].id,
                             [given |-> TRUE, text |-> <<"B","O"," ">>])
            = rooms[Code1].players[1].name

\* the ids of a roster, in its order
RosterIds(room) == [i \in Seats(room) |-> room.players[i].id]

\* C22: every step leaves the sequence of player ids of a room as it was, or
\* with one id more at its end that the roster did not hold.
RosterKeptOrExtended(c) ==
  \/ RosterIds(rooms'[c]) = RosterIds(rooms[c])
  \/ /\ Len(rooms'[c].players) = Len(rooms[c].players) + 1
     /\ SubSeq(RosterIds(rooms'[c]), 1, Len(rooms[c].players)) = RosterIds(rooms[c])
     /\ rooms'[c].players[Len(rooms'[c].players)].id \notin SeqRange(RosterIds(rooms[c]))

RosterAppendOnly == [][\A c \in Kept : RosterKeptOrExtended(c)]_vars

\* C22 happens: a match is over in a room of two, the first of which has been
\* eliminated and is not connected any more.
EliminatedAbsenteeListed ==
  \E c \in DOMAIN rooms :
    /\ rooms[c].phase = "results"
    /\ Len(rooms[c].players) = 2
    /\ rooms[c].players[1].eliminated
    /\ ~rooms[c].players[1].connected
    /\ rooms[c].players[1].id = createPlayerId(c, 1)

\* the player at seat i of room c loses its connection in the step
Leaves(c, i) ==
  /\ rooms[c].players[i].connected
  /\ ~rooms'[c].players[i].connected

\* the turn fields of room c are left alone
SameTurn(c) ==
  /\ rooms'[c].activePlayerId = rooms[c].activePlayerId
  /\ rooms'[c].currentChunk = rooms[c].currentChunk
  /\ rooms'[c].timerEndsAt = rooms[c].timerEndsAt

\* C23: a step in which a player of an in_game room loses its connection
\* changes no player's lives or eliminated flag. If the player held the bomb
\* and two or more eligible players are left, the bomb goes to the next
\* eligible player after it in join order, with another chunk and a deadline
\* of a full turn; if it did not hold the bomb and two or more are left, the
\* holder, the chunk and the deadline stay; with one or none left the match
\* ends.
DisconnectMidGame(c, i) ==
  /\ \A j \in Seats(rooms[c]) : SamePlayer(c, j, {"id", "name", "lives", "score", "eliminated"})
  /\ IF Cardinality(EligibleSeats(rooms'[c])) <= 1
       THEN rooms'[c].phase = "results" /\ rooms'[c].timerEndsAt = NullTime
     ELSE IF rooms[c].players[i].id = rooms[c].activePlayerId
       THEN /\ InGame(rooms'[c])
            /\ SeatsOf(rooms'[c], rooms'[c].activePlayerId)
                 = {NextSeat(EligibleSeats(rooms'[c]), i)}
            /\ rooms'[c].currentChunk # rooms[c].currentChunk
            /\ rooms'[c].currentChunk \in SeqRange(CHUNKS)
            /\ rooms'[c].timerEndsAt = now + rooms[c].config.turnSeconds * 1000
       ELSE InGame(rooms'[c]) /\ SameTurn(c)

DisconnectPassesBombOrEndsMatch ==
  [][\A c \in Kept :
       InGame(rooms[c]) =>
         \A i \in Seats(rooms[c]) : Leaves(c, i) => DisconnectMidGame(c, i)]_vars

\* C23 happens: the holder of the bomb has left a match in which a life had
\* been lost, and the bomb has gone to the next player.
BombLeftBehind ==
  \E c \in DOMAIN rooms :
    /\ InGame(rooms[c])
    /\ Len(rooms[c].lastEvent) = 2
    /\ rooms[c].lastEvent[2] = " disconnected. Bomb moved to next player."
    /\ \E i \in Seats(rooms[c]) : rooms[c].players[i].lives < rooms[c].config.startingLives
    /\ \E i \in Seats(rooms[c]) :
         /\ ~rooms[c].players[i].connected
         /\ rooms[c].players[i].name = rooms[c].lastEvent[1]
         /\ rooms[c].players[i].lives = rooms[c].config.startingLives

\* the room has an empty-since marker, and no player has been connected since
\* the instant it holds
EmptySinceMarker(room) ==
  room.emptySince # NullTime =>
    /\ ConnectedSeats(room) = {}
    /\ room.emptySince <= now

\* a marker is set to the instant of the step and stays as set until cleared
MarkerTellsWhen(c) ==
  rooms'[c].emptySince # NullTime =>
    rooms'[c].emptySince = IF rooms[c].emptySince = NullTime THEN now ELSE rooms[c].emptySince

\* C24: a room leaves the registry only in a step that finds it without a
\* connected player and with a marker more than the retention window old;
\* the marker of a room holds the instant since which no player of the room
\* has been connected. So a room with a connected player, or empty for the
\* window or less, is kept.
RemovedOnlyWhenStale ==
  \A c \in DOMAIN rooms \ DOMAIN rooms' :
    /\ ConnectedSeats(rooms[c]) = {}
    /\ rooms[c].emptySince # NullTime
    /\ now - rooms[c].emptySince > EMPTY_ROOM_TTL_MS

SweepTakesOnlyLongEmptyRooms ==
  /\ [](\A c \in DOMAIN rooms : EmptySinceMarker(rooms[c]))
  /\ [][RemovedOnlyWhenStale /\ \A c \in Kept : MarkerTellsWhen(c)]_vars

\* C24 happens: the sweep has taken the room at the first instant past the
\* window, and a connection that was bound to it is still open.
RoomSweptAway ==
  /\ Code1 \notin DOMAIN rooms
  /\ ~crashed
  /\ now = ClockStart + EMPTY_ROOM_TTL_MS + 1
  /\ ClientSockets[1] \in DOMAIN socketSessions

\* a join or a reconnect has succeeded in room c: a seat is new, or its
\* player has come back, or is on another connection
Arrives(c, i) ==
  \/ i \notin Seats(rooms[c])
  \/ /\ rooms'[c].players[i].connected
     /\ \/ ~rooms[c].players[i].connected
        \/ rooms'[c].players[i].socketId # rooms[c].players[i].socketId

MarkerFollowsConnections(c) ==
  /\ (ConnectedSeats(rooms[c]) # {} /\ ConnectedSeats(rooms'[c]) = {})
       => rooms'[c].emptySince = now
  /\ (\E i \in Seats(rooms'[c]) : Arrives(c, i)) => rooms'[c].emptySince = NullTime

\* C29: in every reachable state the emptySince marker of a room is set
\* exactly when none of its players is connected; the step that takes the
\* last connected player away sets it to the instant of the step, and every
\* step in which a player joins or comes back leaves it cleared.
MarkerSetExactlyWhenEmpty ==
  /\ [](\A c \in DOMAIN rooms :
          (rooms[c].emptySince # NullTime) <=> (ConnectedSeats(rooms[c]) = {}))
  /\ [][\A c \in Kept : MarkerFollowsConnections(c)]_vars

\* C29 happens: a second player has joined a lobby that its creator had left
\* empty some time before, and the marker is cleared.
JoinedAnEmptyLobby ==
  /\ Code1 \in DOMAIN rooms
  /\ Len(rooms[Code1].players) = 2
  /\ ~rooms[Code1].players[1].connected
  /\ rooms[Code1].players[2].connected
  /\ rooms[Code1].hostId = rooms[Code1].players[1].id
  /\ rooms[Code1].lastEvent = <<rooms[Code1].players[2].name, " joined the room.">>
  /\ rooms[Code1].emptySince = NullTime
  /\ now > ClockStart

\* the session table maps connection s to the room and the player that the
\* payload a names, the room by its code as the handlers read it
BoundTo(s, a) ==
  /\ s \in DOMAIN socketSessions
  /\ socketSessions[s] = [roomCode |-> sanitizeRoomCode(a.roomCode), playerId |-> a.playerId]

SettingsFrom(a, f) ==
  [roomCode |-> a.roomCode, playerId |-> a.playerId, turnSeconds |-> f.turnSeconds,
   startingLives |-> f.startingLives, dictionaryEnabled |-> f.dictionaryEnabled]

WordFrom(a, w) == [roomCode |-> a.roomCode, playerId |-> a.playerId, word |-> w]

\* the four requests are answered with an error
UnboundRefused(s, a) ==
  /\ \A f \in SettingsInputs : updateSettingsError(s, SettingsFrom(a, f)) # "ok"
  /\ startGameError(s, a.roomCode, a.playerId) # "ok"
  /\ \A w \in WordInputs : submitWordError(s, WordFrom(a, w)) # "ok"
  /\ playAgainError(s, a.roomCode, a.playerId) # "ok"

\* the step is none of the four requests
UnboundActsNot(s, a) ==
  /\ \A f \in SettingsInputs : ~UpdateSettings(s, SettingsFrom(a, f))
  /\ ~StartGame(s, a.roomCode, a.playerId)
  /\ \A w \in WordInputs : ~SubmitWord(s, WordFrom(a, w))
  /\ ~PlayAgain(s, a.roomCode, a.playerId)

\* C25: updateSettings, startGame, submitWord and playAgain are answered with
\* an error whenever the session table does not map the issuing connection to
\* the room and the player that the payload names, whatever that player is in
\* the room; no step that changes a room is one of these requests from such a
\* connection.
OnlyBoundConnectionsAct ==
  /\ [](\A s \in Sockets, a \in ActionInputs : ~BoundTo(s, a) => UnboundRefused(s, a))
  /\ [][rooms' # rooms =>
          \A s \in Sockets, a \in ActionInputs : ~BoundTo(s, a) => UnboundActsNot(s, a)]_vars

\* C25 happens: after a match, in a lobby of two connected players each on
\* its own connection, the guest's connection has sent a word, and is refused
\* the start of a match in the host's name, which the host's connection may
\* ask for.
GuestCannotStartAsHost ==
  \E c \in DOMAIN rooms, s, t \in Sockets :
    /\ rooms[c].phase = "lobby"
    /\ Len(rooms[c].players) = 2
    /\ rooms[c].hostId = rooms[c].players[1].id
    /\ s \in DOMAIN socketSessions /\ t \in DOMAIN socketSessions
    /\ socketSessions[s] = [roomCode |-> c, playerId |-> rooms[c].players[1].id]
    /\ socketSessions[t] = [roomCode |-> c, playerId |-> rooms[c].players[2].id]
    /\ t \in DOMAIN lastSubmitAtBySocket
    /\ startGameError(t, c, rooms[c].hostId) = "NotAllowed"
    /\ startGameError(s, c, rooms[c].hostId) = "ok"

\* C26: the snapshot of a room taken in any reachable state has remainingMs
\* equal to the time left to the deadline, or 0 when the deadline is past,
\* if the room is in_game, which then has a deadline, and 0 otherwise; and
\* canStart true exactly when the room is in lobby with two or more
\* connected players.
SnapshotTimerAndCanStart ==
  \A c \in DOMAIN rooms :
    LET snapshot == serializeRoom(rooms[c], now)
        left == rooms[c].timerEndsAt - now
    IN /\ IF InGame(rooms[c])
            THEN /\ rooms[c].timerEndsAt # NullTime
                 /\ snapshot.remainingMs = IF left > 0 THEN left ELSE 0
            ELSE snapshot.remainingMs = 0
       /\ snapshot.canStart
            <=> (rooms[c].phase = "lobby" /\ Cardinality(ConnectedSeats(rooms[c])) >= 2)

\* C26 happens: a match in which a word has been played is running past
\* its deadline, which no tick has seen yet, with a player away.
SnapshotPastDeadline ==
  \E c \in DOMAIN rooms :
    /\ InGame(rooms[c])
    /\ rooms[c].timerEndsAt < now
    /\ serializeRoom(rooms[c], now).remainingMs = 0
    /\ ~serializeRoom(rooms[c], now).canStart
    /\ rooms[c].usedWordsOrdered # <<>>
    /\ \E i \in Seats(rooms[c]) : ~rooms[c].players[i].connected

\* every code createRoomCode can draw is the code of a room
CodesExhausted == createRoomCode(DOMAIN rooms, RoomCodes) = {}

\* C27: a createRoom that finds every room code in use leaves the registry
\* and the session table as they are, and no exception ever leaves a handler.
ExhaustedCodesAnsweredAsError ==
  /\ []~crashed
  /\ [][\A s \in Sockets, n \in HostNames :
          (CodesExhausted /\ CreateRoom(s, n, RoomCodes))
            => /\ rooms' = rooms
               /\ socketSessions' = socketSessions
               /\ ~crashed']_vars

\* the rooms a step creates, removes or changes
Changed ==
  { c \in (DOMAIN rooms) \cup (DOMAIN rooms') :
      c \notin DOMAIN rooms \/ c \notin DOMAIN rooms' \/ rooms'[c] # rooms[c] }

\* the room a connection is bound to, which its disconnect is about
RoomOfConnection(s) ==
  IF s \in DOMAIN socketSessions THEN {socketSessions[s].roomCode} ELSE {}

\* one room changed, and no request that addresses another room is the step
OnlyAddressedRoomChanges ==
  /\ Cardinality(Changed) <= 1
  /\ \A c \in Changed, s \in RoomSockets :
       /\ c \in DOMAIN rooms => ~CreateRoom(s, NameOn(s), TwoCodes)
       /\ c \notin RoomOfConnection(s) => ~HandleDisconnect(s)
       /\ \A d \in TwoCodes :
            sanitizeRoomCode(d) # c => ~JoinRoom(s, d, NameOn(s))
       /\ \A a \in Addresses :
            sanitizeRoomCode(a.roomCode) # c =>
              /\ ~ReconnectPlayer(s, a.roomCode, a.playerId, [given |-> FALSE, text |-> <<>>])
              /\ ~StartGame(s, a.roomCode, a.playerId)
              /\ ~PlayAgain(s, a.roomCode, a.playerId)
              /\ \A w \in RoomWords :
                   ~SubmitWord(s, [roomCode |-> a.roomCode, playerId |-> a.playerId,
                                   word |-> w])
              /\ \A f \in SettingsInputs :
                   ~UpdateSettings(s, [roomCode |-> a.roomCode, playerId |-> a.playerId,
                                       turnSeconds |-> f.turnSeconds,
                                       startingLives |-> f.startingLives,
                                       dictionaryEnabled |-> f.dictionaryEnabled])

DeadlineOnlyInGame(room) == (room.timerEndsAt # NullTime) <=> (room.phase = "in_game")

\* a step that takes the room out of a match leaves no deadline
EndClearsDeadline(c) ==
  (rooms[c].phase = "in_game" /\ rooms'[c].phase # "in_game")
    => rooms'[c].timerEndsAt = NullTime

\* a tick at the current instant, whatever it would draw, finds nothing to
\* do in a room whose match is over
TickSparesEndedMatch(room) ==
  room.phase = "results" => \A draw \in Draws : tickRoom(room, draw, now) = room

\* C30: every step that ends a match clears the deadline in that step; in
\* every reachable state timerEndsAt is non-null exactly when the phase is
\* in_game; and a tick in a room whose match has ended takes no life (it
\* leaves the room as it is).
MatchEndDisarmsTimer ==
  /\ [](\A c \in DOMAIN rooms :
         DeadlineOnlyInGame(rooms[c]) /\ TickSparesEndedMatch(rooms[c]))
  /\ [][\A c \in Kept : EndClearsDeadline(c)]_vars

\* a match that ended past the instant its first deadline named, with a
\* player eliminated and another away
EndedPastFirstDeadline ==
  \E c \in DOMAIN rooms :
    /\ rooms[c].phase = "results"
    /\ rooms[c].timerEndsAt = NullTime
    /\ rooms[c].winnerId # NullId
    /\ now >= ClockStart + rooms[c].config.turnSeconds * 1000
    /\ \E i \in Seats(rooms[c]) : rooms[c].players[i].eliminated
    /\ \E i \in Seats(rooms[c]) : ~rooms[c].players[i].connected

\* the room is in a match whose deadline has been reached at the current instant
DeadlineReached(room) ==
  /\ room.phase = "in_game"
  /\ room.timerEndsAt # NullTime
  /\ now >= room.timerEndsAt

\* C31: a tick changes a room only if the room is in_game and the current
\* time has reached its deadline; a room in lobby or results, and an in_game
\* room whose deadline is still ahead, is left with every field as it was.
TickChangesOnlyDueRooms ==
  /\ [](\A c \in DOMAIN rooms : \A draw \in Draws :
         tickRoom(rooms[c], draw, now) # rooms[c] => DeadlineReached(rooms[c]))
  /\ [][(\E draws \in [DOMAIN rooms -> Draws] : Tick(draws))
          => \A c \in Kept : rooms'[c] # rooms[c] => DeadlineReached(rooms[c])]_vars

\* a match in which the bomb has gone off and the next deadline is ahead
BombWentOffDeadlineAhead ==
  \E c \in DOMAIN rooms :
    /\ rooms[c].phase = "in_game"
    /\ now < rooms[c].timerEndsAt
    /\ now > ClockStart
    /\ \E i \in Seats(rooms[c]) : rooms[c].players[i].lives < rooms[c].config.startingLives

\* a player of room c goes from away to connected, or changes connection
ComesBack(c, i) ==
  /\ i \in Seats(rooms'[c])
  /\ rooms'[c].players[i].connected
  /\ ~rooms[c].players[i].connected \/ rooms'[c].players[i].socketId # rooms[c].players[i].socketId

\* the holder of the bomb leaves a match that goes on
HolderLeavesMatchGoesOn(c) ==
  /\ InGame(rooms[c])
  /\ InGame(rooms'[c])
  /\ \E i \in SeatsOf(rooms[c], rooms[c].activePlayerId) : Leaves(c, i)

\* C32 as stated: once the holder of the bomb has disconnected, the match
\* goes on with no active player (until a reconnect names one).
HolderGoneLeavesNoHolder ==
  [][\A c \in Kept : HolderLeavesMatchGoesOn(c) => rooms'[c].activePlayerId = NullId]_vars

\* C32, amended: an in_game room always has an active player, since the
\* step in which the holder disconnects passes the bomb or ends the match; so
\* a reconnect into an in_game room finds a holder and leaves the holder, the
\* chunk and the deadline as they are.
MatchNeverWithoutHolder ==
  /\ [](\A c \in DOMAIN rooms : InGame(rooms[c]) => rooms[c].activePlayerId # NullId)
  /\ [][\A c \in Kept :
          (InGame(rooms[c]) /\ \E i \in Seats(rooms[c]) : ComesBack(c, i)) => SameTurn(c)]_vars

\* the holder left with the bomb moving on, and everybody is back in the
\* match, the bomb with another player
LeaverBackBombElsewhere ==
  \E c \in DOMAIN rooms :
    /\ InGame(rooms[c])
    /\ \A i \in Seats(rooms[c]) : rooms[c].players[i].connected
    /\ \E i \in Seats(rooms[c]) :
         /\ rooms[c].lastEvent = <<rooms[c].players[i].name,
                                    " disconnected. Bomb moved to next player.">>
         /\ rooms[c].activePlayerId # rooms[c].players[i].id

\* C33: in every reachable state a room in phase in_game has at least two
\* eligible players, that is, players connected and not eliminated.
TwoEligibleWhileInGame ==
  \A c \in DOMAIN rooms :
    InGame(rooms[c]) => Cardinality(EligibleSeats(rooms[c])) >= MIN_PLAYERS_TO_START

\* a match of three that goes on with exactly two after a word was played:
\* one player is out, and everybody is connected
MatchGoesOnWithTwo ==
  \E c \in DOMAIN rooms :
    /\ InGame(rooms[c])
    /\ Cardinality(EligibleSeats(rooms[c])) = 2
    /\ \E i \in Seats(rooms[c]) : rooms[c].players[i].eliminated
    /\ \A i \in Seats(rooms[c]) : rooms[c].players[i].connected
    /\ rooms[c].usedWordsOrdered # <<>>

\* C34: in every reachable state in which a room has at least one connected
\* player, hostId names a connected player of the room.
HostConnectedWhenAnyoneIs ==
  \A c \in DOMAIN rooms :
    connectedCount(rooms[c]) > 0 =>
      /\ HasPlayer(rooms[c], rooms[c].hostId)
      /\ getPlayer(rooms[c], rooms[c].hostId).connected

\* the live connections whose session names the player of room c
SessionsNaming(c, playerId) ==
  { s \in DOMAIN socketSessions :
      socketSessions[s].roomCode = c /\ socketSessions[s].playerId = playerId }

\* C35: in every reachable state a player is marked connected exactly when
\* one and only one live connection's session names the player, that
\* connection being the player's socketId.
SessionsAgreeWithFlags ==
  \A c \in DOMAIN rooms : \A i \in Seats(rooms[c]) :
    rooms[c].players[i].connected
      <=> SessionsNaming(c, rooms[c].players[i].id) = {rooms[c].players[i].socketId}

\* a match is on or over in the room
MatchPhase(room) == room.phase \in {"in_game", "results"}

\* out exactly at no lives, lives not negative, and within the configured
\* starting lives while a match is on or over
LivesInRange(room) ==
  \A i \in Seats(room) :
    /\ room.players[i].eliminated <=> room.players[i].lives = 0
    /\ room.players[i].lives >= 0
    /\ MatchPhase(room) => room.players[i].lives <= room.config.startingLives

\* from one state of a match to the next no player gains a life
NoLifeGained(c) ==
  (MatchPhase(rooms[c]) /\ MatchPhase(rooms'[c])) =>
    \A i \in Seats(rooms[c]) : rooms'[c].players[i].lives <= rooms[c].players[i].lives

\* C36: in every reachable state a player is eliminated exactly when its
\* lives are 0, and lives are never negative; in in_game and results lives
\* do not exceed the configured startingLives and never increase.
EliminatedExactlyAtZeroLives ==
  /\ [](\A c \in DOMAIN rooms : LivesInRange(rooms[c]))
  /\ [][\A c \in Kept : NoLifeGained(c)]_vars

\* a match lost on the single life the host had configured
LostOnTheOnlyLife ==
  \E c \in DOMAIN rooms :
    /\ rooms[c].phase = "results"
    /\ rooms[c].config.startingLives = MIN_STARTING_LIVES
    /\ \E i \in Seats(rooms[c]) :
         rooms[c].players[i].eliminated /\ rooms[c].players[i].lives = 0
    /\ \E i \in Seats(rooms[c]) :
         ~rooms[c].players[i].eliminated /\ rooms[c].players[i].lives = MIN_STARTING_LIVES

\* the scores of a roster, added up
RECURSIVE ScoreSum(_)
ScoreSum(players) ==
  IF players = <<>> THEN 0 ELSE players[1].score + ScoreSum(Tail(players))

\* C37: in every reachable state the scores of a room's players add up to
\* the length of the ordered used-word log, the log holds no word twice, and
\* its entries are exactly the members of the used-word set.
ScoresCountTheLog ==
  \A c \in DOMAIN rooms :
    /\ ScoreSum(rooms[c].players) = Len(rooms[c].usedWordsOrdered)
    /\ NoRepeat(rooms[c].usedWordsOrdered)
    /\ SeqRange(rooms[c].usedWordsOrdered) = rooms[c].usedWords

\* two words on the log, played by two players, one of whom has gone since
TwoWordsTwoScorers ==
  \E c \in DOMAIN rooms :
    /\ Len(rooms[c].usedWordsOrdered) = 2
    /\ Cardinality({ i \in Seats(rooms[c]) : rooms[c].players[i].score > 0 }) >= 2
    /\ \E i \in Seats(rooms[c]) :
         rooms[c].players[i].score > 0 /\ ~rooms[c].players[i].connected

\* the match's deadline has been reached and no tick has handled it yet
PastDeadline(room) ==
  /\ InGame(room)
  /\ room.timerEndsAt # NullTime
  /\ now >= room.timerEndsAt

\* client k holds the bomb on its own connection and word is one the room
\* takes: letters only, three or more, with the chunk, new, in the dictionary
ValidWordFromHolder(k, word) ==
  /\ HoldsBomb(k)
  /\ ~RateLimited(ClientSockets[k])
  /\ socketOwnsPlayer(ClientSockets[k], Code1, createPlayerId(Code1, k))
  /\ IsEligible(getPlayer(rooms[Code1], createPlayerId(Code1, k)))
  /\ IsLowerAlpha(sanitizeWord(word))
  /\ Len(sanitizeWord(word)) >= 3
  /\ ~MissingChunk(rooms[Code1], sanitizeWord(word))
  /\ ~AlreadyUsed(rooms[Code1], sanitizeWord(word))
  /\ rooms[Code1].config.dictionaryEnabled => dictionaryHas(sanitizeWord(word))

\* a word is accepted past the deadline: nobody loses a life or goes out,
\* the match goes on and the deadline is a full turn from now
LateWordCostsNothing(c) ==
  (/\ PastDeadline(rooms[c])
   /\ Len(rooms'[c].usedWordsOrdered) = Len(rooms[c].usedWordsOrdered) + 1)
    => /\ \A i \in Seats(rooms[c]) :
            SamePlayer(c, i, {"id", "name", "lives", "eliminated", "connected", "socketId"})
       /\ InGame(rooms'[c])
       /\ rooms'[c].activePlayerId # rooms[c].activePlayerId
       /\ rooms'[c].timerEndsAt = now + rooms[c].config.turnSeconds * 1000

\* C38: submitWord does not look at the deadline. A valid word from the
\* active player handled at or after timerEndsAt, before a tick has handled
\* the expiry, is accepted; the player loses no life for the turn, and the
\* next player gets a full window of turnSeconds from that instant.
LateWordStillAccepted ==
  /\ [](\A k \in Clients, w \in TurnWords :
         (Code1 \in DOMAIN rooms /\ PastDeadline(rooms[Code1]) /\ ValidWordFromHolder(k, w))
           => submitWordError(ClientSockets[k],
                              [roomCode |-> Code1, playerId |-> createPlayerId(Code1, k),
                               word |-> w]) = "ok")
  /\ [][\A c \in Kept : LateWordCostsNothing(c)]_vars

\* the first holder's word came in at the very instant its deadline named:
\* it scored, everybody has all lives, and the next deadline is a turn away
WordOnTheDeadline ==
  /\ Code1 \in DOMAIN rooms
  /\ InGame(rooms[Code1])
  /\ now = ClockStart + rooms[Code1].config.turnSeconds * 1000
  /\ Len(rooms[Code1].usedWordsOrdered) = 1
  /\ rooms[Code1].players[1].score = 1
  /\ ClientSockets[1] \in DOMAIN lastSubmitAtBySocket
  /\ lastSubmitAtBySocket[ClientSockets[1]] = now
  /\ \A i \in Seats(rooms[Code1]) :
       /\ rooms[Code1].players[i].lives = rooms[Code1].config.startingLives
       /\ rooms[Code1].players[i].connected
  /\ rooms[Code1].timerEndsAt = now + rooms[Code1].config.turnSeconds * 1000

\* the lives of the players still in, added up
RECURSIVE LivesLeft(_)
LivesLeft(players) ==
  IF players = <<>> THEN 0
  ELSE (IF players[1].eliminated THEN 0 ELSE players[1].lives) + LivesLeft(Tail(players))

\* a timer expiry costs the players still in one life between them, and
\* nothing gives a life back while the match runs
ExpiryBurnsOneLife ==
  \A c \in Kept :
    InGame(rooms[c]) =>
      /\ LivesLeft(rooms'[c].players) <= LivesLeft(rooms[c].players)
      /\ (TimerFires /\ rooms'[c] # rooms[c])
           => LivesLeft(rooms'[c].players) = LivesLeft(rooms[c].players) - 1

FuseLit == Code1 \in DOMAIN rooms /\ rooms[Code1].phase = "in_game"
FuseOut == Code1 \in DOMAIN rooms /\ rooms[Code1].phase = "results"

\* the holder of the bomb loses its connection and the bomb is passed on
\* with a new deadline
BombPassedOnByLeaver == \E c \in Kept : HolderLeavesMatchGoesOn(c)

\* C39 as stated: with time advancing, ticks firing and no word accepted, a
\* match always reaches results, whatever disconnects and reconnects happen.
FuseAlwaysBurnsDown == FuseLit ~> FuseOut

\* C39, amended: with time advancing, ticks firing and no word accepted, a
\* match reaches results unless holders of the bomb keep leaving, each
\* departure passing the bomb on with a full new deadline; and every timer
\* expiry takes one of the lives of the players still in, so the match sees
\* at most as many expiries as those lives.
FuseBurnsDownUnlessPassedOn ==
  /\ [][ExpiryBurnsOneLife]_vars
  /\ ([]<><<BombPassedOnByLeaver>>_vars) \/ (FuseLit ~> FuseOut)

\* a match burnt down: one player went out on expiries while another, with
\* lives left, had lost its connection
BurntDownWithOneAway ==
  /\ FuseOut
  /\ \E i \in Seats(rooms[Code1]) : rooms[Code1].players[i].eliminated
  /\ \E i \in Seats(rooms[Code1]) :
       ~rooms[Code1].players[i].connected /\ rooms[Code1].players[i].lives > 0
  /\ rooms[Code1].winnerId # NullId

====
